---- MODULE Spec2Model ----
(***************************************************************************)
(* Ownership & economy engine of the "Durov's Prison" game                 *)
(* (src/database.py, src/game_logic.py, src/bot_handlers.py).              *)
(*                                                                         *)
(* Every account is a row of the users table; ownership is the owner_id    *)
(* back-reference.  Time is counted in whole hours.  Loyalty points are    *)
(* counted in ten-thousandths of a point (0.0001), the unit in which       *)
(* add_purchase_points awards them; the income multiplier of an upgrade    *)
(* track is counted in hundredths.                                         *)
(***************************************************************************)
EXTENDS Integers, Sequences, FiniteSets, TLC

\* ------------------------------------------------------------------------
\* Bounds of the model
\* ------------------------------------------------------------------------
Ids == {1, 2, 3}                \* telegram ids that may ever talk to the bot
MaxOps == 3                     \* engine calls per behaviour (Spec)
MaxTradeOps == 4                \* engine calls per behaviour (SpecTrade)
MaxShieldOps == 4               \* engine calls per behaviour (SpecShield)
MaxWorkOps == 4                 \* engine calls per behaviour (SpecWork)
MaxRewardOps == 2               \* engine calls per behaviour (SpecReward)
MaxPriceOps == 4                \* steps per behaviour (SpecPrice)
MaxCostOps == 4                 \* engine calls per behaviour (SpecCost)
MaxIncomeOps == 3               \* steps per behaviour (SpecIncome)
MaxAccountOps == 3              \* engine calls per behaviour (SpecAccounts)
MaxLiveOps == 3                 \* engine calls per behaviour (SpecWorkLive)
MaxClock == 3                   \* hours of wall clock followed (SpecWorkLive)
MaxEmpireOps == 4               \* engine calls per behaviour (SpecEmpire)
MaxLiquidityOps == 4            \* engine calls per behaviour (SpecLiquidity)
MaxComputeOps == 3              \* engine calls per behaviour (SpecCompute)
MaxChainOps == 4                \* engine calls per behaviour (SpecChain)
Threads == {"t1", "t2"}         \* concurrent callers of buy_prisoner
Amounts == {-350, 0, 50}        \* amounts handed to transfer_money
TickHours == {1, 24}            \* clock advances, in hours
Factors == {80, 120}            \* random.uniform(0.8, 1.2), in hundredths
Gifts == {250}                  \* amounts handed over in the shield runs
CostGifts == {138}              \* amounts handed over in the shield cost runs
RewardFactors == 80..120        \* random.uniform(0.8, 1.2), every hundredth
RewardPrices == {50, 99, 100, 119, 120, 130, 300, 1000}
DynProducts == {81, 99, 450}    \* products of the four factors, hundredths
MarketFactors == {95, 105}      \* random.uniform(0.95, 1.05), in hundredths
IncomeBases == {1, 2, 3}        \* random.randint(1, 3)
EmpireIds == 1..7               \* accounts of SpecEmpire
EmpireBuyers == {6, 7}          \* accounts that buy in SpecEmpire
EmpireAssets == {1, 2}          \* accounts bought in SpecEmpire
EmpireSizes == {4, 5}           \* accounts captured by account 1
EmpirePrices == {77, 100, 139}  \* prices the market job has left account 1 at

\* ------------------------------------------------------------------------
\* Program constants
\* ------------------------------------------------------------------------
NULL == 0                       \* SQL NULL / Python None for ids and times
STARTING_BALANCE == 300
STARTING_PRICE == 100
UPGRADE_BASE_COST == 100
WORK_HOURS == 1
SHIELD_HOURS == 24
TRADE_WINDOW_HOURS == 720       \* datetime('now', '-30 days')
REFERRAL_POINTS == 10000        \* 1.0 point, in ten-thousandths
MIN_PRICE == 50                 \* max(50, new_price)

VARIABLES
    users,              \* users table: telegram_id -> row
    ownership_history,  \* ownership_history table, in insertion order
    transactions,       \* transactions table, in insertion order
    work_assignments,   \* work_assignments table, in insertion order
    prisoner_upgrades,  \* prisoner_upgrades table: prisoner_id -> row
    now,                \* wall clock, hours
    ret,                \* what the last engine call returned to its caller
    ops,                \* number of calls made so far
    calls,              \* per thread: the buy_prisoner call in progress
    income_log,         \* income_log table, in insertion order
    profit_log          \* profit_log table, in insertion order

vars == <<users, ownership_history, transactions, work_assignments,
          prisoner_upgrades, now, ret, ops, calls, income_log, profit_log>>

dbvars == <<users, ownership_history, transactions, work_assignments,
            prisoner_upgrades>>

\* ------------------------------------------------------------------------
\* Rows
\* ------------------------------------------------------------------------
NewUserRow(owner) ==
    [balance |-> STARTING_BALANCE, points |-> 0, price |-> STARTING_PRICE,
     owner_id |-> owner, shield_until |-> NULL, shield_active |-> FALSE]

NewUpgradeRow ==
    [level |-> 1, multiplier |-> 100, next_cost |-> UPGRADE_BASE_COST,
     total_invested |-> 0]

\* an ownership_history row that records no previous owner
HistoryRow_NoOld(prisoner, old, new, price) ==
    [prisoner_id |-> prisoner, old_owner_id |-> NULL, new_owner_id |-> new,
     price |-> price, timestamp |-> now]

HistoryRow(prisoner, old, new, price) ==
    [prisoner_id |-> prisoner, old_owner_id |-> old, new_owner_id |-> new,
     price |-> price, timestamp |-> now]

TxRow(from, to, amount, type) ==
    [from_user_id |-> from, to_user_id |-> to, amount |-> amount,
     transaction_type |-> type]

Ret(op, ok, err, who, target, amount) ==
    [op |-> op, ok |-> ok, err |-> err, who |-> who, target |-> target,
     amount |-> amount]

\* A thread's call of buy_prisoner: where it stands, what it read at its
\* checks, what it returned, and the steps at which it checked and wrote
NoCall == [pc |-> "idle", buyer |-> NULL, prisoner |-> NULL, price |-> 0,
           old_owner |-> NULL, ok |-> FALSE, err |-> "none",
           checked_at |-> 0, committed_at |-> 0]

\* ------------------------------------------------------------------------
\* Reads
\* ------------------------------------------------------------------------
Exists(u, id) == id \in DOMAIN u

\* UPDATE users SET balance = balance + ? WHERE telegram_id = ?
\* (no row, no change)
AddBalance(u, id, amount) ==
    IF id \in DOMAIN u THEN [u EXCEPT ![id].balance = @ + amount] ELSE u

AddPoints(u, id, amount) ==
    IF id \in DOMAIN u THEN [u EXCEPT ![id].points = @ + amount] ELSE u

get_my_prisoners(u, owner) == {p \in DOMAIN u : u[p].owner_id = owner}

RECURSIVE SumOver(_, _)
SumOver(S, f) ==
    IF S = {} THEN 0
    ELSE LET x == CHOOSE y \in S : TRUE IN f[x] + SumOver(S \ {x}, f)

TotalBalance(u) == SumOver(DOMAIN u, [i \in DOMAIN u |-> u[i].balance])

\* ------------------------------------------------------------------------
\* Shields
\* ------------------------------------------------------------------------
\* the shield taken as still active at the very hour it expires
ShieldActive_Inclusive(u, id, t) ==
    /\ id \in DOMAIN u
    /\ u[id].shield_active
    /\ u[id].shield_until # NULL
    /\ t <= u[id].shield_until

\* datetime("now") < shield_until on a row whose flag and expiry are set
\* a shield that never counts as active
ShieldActive_Never(u, id, t) == FALSE

ShieldActive(u, id, t) ==
    /\ id \in DOMAIN u
    /\ u[id].shield_active
    /\ u[id].shield_until # NULL
    /\ t < u[id].shield_until

\* the shield check without its deactivating UPDATE
ShieldCleared_Keep(u, id, t) == u

\* check_shield_status: an expired shield is deactivated by the check
ShieldCleared(u, id, t) ==
    IF /\ id \in DOMAIN u
       /\ u[id].shield_active
       /\ u[id].shield_until # NULL
       /\ ~(t < u[id].shield_until)
    THEN [u EXCEPT ![id].shield_active = FALSE, ![id].shield_until = NULL]
    ELSE u

\* ------------------------------------------------------------------------
\* Prices
\* ------------------------------------------------------------------------
\* int(x * 1.15) in IEEE doubles: 1.0 + 0.15 lies just below 1.15, so for
\* these multiples of 20 the product falls short of the exact integer
\* (tabulated for x <= 3000).
Float115Low ==
    {100, 180, 200, 220, 340, 360, 380, 400, 420, 440} \cup
    {x \in 660..880 : x % 20 = 0} \cup {x \in 1300..1780 : x % 20 = 0} \cup
    {x \in 2580..3000 : x % 20 = 0}

IntTimes115(x) ==
    IF x \in Float115Low THEN (x * 115) \div 100 - 1 ELSE (x * 115) \div 100

\* a 20% instead of a 30% rise
calculate_new_price_20(price) == (price * 12) \div 10

\* GameLogic.calculate_new_price / base_new_price: int(price * 1.3)
calculate_new_price(price) == (price * 13) \div 10

\* rows of the asset in ownership_history younger than 30 days
recent_trades(hist, a, t) ==
    Cardinality({i \in DOMAIN hist :
                    /\ hist[i].prisoner_id = a
                    /\ hist[i].timestamp > t - TRADE_WINDOW_HOURS})

\* price written by a purchase: int(base_new_price * dynamic_multiplier)
PurchasePrice(price, trades, owned) ==
    LET base == calculate_new_price(price)
    IN  IF trades >= 3 /\ owned >= 5 THEN (base * 125) \div 100
        ELSE IF trades >= 3 THEN (base * 11) \div 10
        ELSE IF owned >= 5 THEN IntTimes115(base)
        ELSE base

\* ------------------------------------------------------------------------
\* buy_prisoner
\* ------------------------------------------------------------------------
\* The checks of buy_prisoner, in the order of the code.  The result holds
\* the users table as the checks leave it (check_shield_status may have
\* cleared an expired shield) and what the call read.
\* the checks of buy_prisoner with the balance compared before the shield
BuyCheck_FundsFirst(u, b, a, t) ==
    IF ~Exists(u, a)
    THEN [err |-> "NotFound", users |-> u, price |-> 0, old_owner |-> NULL]
    ELSE IF b = a
    THEN [err |-> "SelfTrade", users |-> u, price |-> 0, old_owner |-> NULL]
    ELSE IF u[a].owner_id = b
    THEN [err |-> "AlreadyOwned", users |-> u, price |-> 0,
          old_owner |-> NULL]
    ELSE IF Exists(u, b) /\ u[b].balance < u[a].price
    THEN [err |-> "InsufficientFunds", users |-> u, price |-> 0,
          old_owner |-> NULL]
    ELSE IF ShieldActive(u, a, t)
    THEN [err |-> "Shielded", users |-> u, price |-> 0, old_owner |-> NULL]
    ELSE [err |-> "OK", users |-> ShieldCleared(u, a, t),
          price |-> u[a].price, old_owner |-> u[a].owner_id]

BuyCheck(u, b, a, t) ==
    IF ~Exists(u, a)
    THEN [err |-> "NotFound", users |-> u, price |-> 0, old_owner |-> NULL]
    ELSE IF b = a
    THEN [err |-> "SelfTrade", users |-> u, price |-> 0, old_owner |-> NULL]
    ELSE IF u[a].owner_id = b
    THEN [err |-> "AlreadyOwned", users |-> u, price |-> 0,
          old_owner |-> NULL]
    ELSE IF ShieldActive(u, a, t)
    THEN [err |-> "Shielded", users |-> u, price |-> 0, old_owner |-> NULL]
    ELSE LET u1 == ShieldCleared(u, a, t)
         IN  IF ~Exists(u1, b)
             THEN [err |-> "TypeError", users |-> u1, price |-> 0,
                   old_owner |-> NULL]
             ELSE IF u1[b].balance < u[a].price
             THEN [err |-> "InsufficientFunds", users |-> u1, price |-> 0,
                   old_owner |-> NULL]
             ELSE [err |-> "OK", users |-> u1, price |-> u[a].price,
                   old_owner |-> u[a].owner_id]

\* buy_prisoner without the award of loyalty points
BuyUsers_NoPoints(u, b, a, price, old_owner, new_price) ==
    LET u1 == [u EXCEPT ![a].owner_id = b, ![a].price = new_price]
        u2 == AddBalance(u1, b, -price)
    IN  IF old_owner # NULL THEN AddBalance(u2, old_owner, price) ELSE u2

\* buy_prisoner with the credit of the previous owner left out
BuyUsers_NoCredit(u, b, a, price, old_owner, new_price) ==
    LET u1 == [u EXCEPT ![a].owner_id = b, ![a].price = new_price]
    IN  AddPoints(AddBalance(u1, b, -price), b, price)

\* buy_prisoner with a 10% fee withheld from the previous owner
BuyUsers_Fee(u, b, a, price, old_owner, new_price) ==
    LET u1 == [u EXCEPT ![a].owner_id = b, ![a].price = new_price]
        u2 == AddBalance(u1, b, -price)
        u3 == IF old_owner # NULL
              THEN AddBalance(u2, old_owner, (price * 9) \div 10)
              ELSE u2
    IN  AddPoints(u3, b, price)

\* The UPDATEs of buy_prisoner on the users table
BuyUsers(u, b, a, price, old_owner, new_price) ==
    LET u1 == [u EXCEPT ![a].owner_id = b, ![a].price = new_price]
        u2 == AddBalance(u1, b, -price)
        u3 == IF old_owner # NULL THEN AddBalance(u2, old_owner, price)
              ELSE u2
    IN  AddPoints(u3, b, price)

\* The INSERTs of buy_prisoner into transactions
\* buy_prisoner logging the purchase leg only
BuyTransactions_NoSale(tx, b, a, price, old_owner) ==
    Append(tx, TxRow(b, a, price, "purchase"))

BuyTransactions(tx, b, a, price, old_owner) ==
    LET tx1 == IF old_owner # NULL
               THEN Append(tx, TxRow(b, old_owner, price, "sale"))
               ELSE tx
    IN  Append(tx1, TxRow(b, a, price, "purchase"))

\* The writes of buy_prisoner on the tables u, tx and hist, with the price
\* and the owner the call read at its checks
BuyWrite(u, b, a, price, old_owner) ==
    LET new_price ==
            PurchasePrice(price, recent_trades(ownership_history, a, now),
                          Cardinality(get_my_prisoners(u, a)))
    IN  /\ users' = BuyUsers(u, b, a, price, old_owner, new_price)
        /\ transactions' = BuyTransactions(transactions, b, a, price,
                                           old_owner)
        /\ ownership_history' =
               Append(ownership_history, HistoryRow(a, old_owner, b, price))

\* buy_prisoner(buyer_id, prisoner_id), run to completion
BuyPrisoner(b, a) ==
    LET c == BuyCheck(users, b, a, now)
    IN  /\ ops' = ops + 1
        /\ IF c.err = "OK"
           THEN /\ BuyWrite(c.users, b, a, c.price, c.old_owner)
                /\ ret' = Ret("buy_prisoner", TRUE, "OK", b, a, c.price)
           ELSE /\ users' = c.users
                /\ UNCHANGED <<transactions, ownership_history>>
                /\ ret' = Ret("buy_prisoner", FALSE, c.err, b, a, 0)
        /\ UNCHANGED <<work_assignments, prisoner_upgrades, now, calls,
                       income_log, profit_log>>

\* ------------------------------------------------------------------------
\* transfer_money
\* ------------------------------------------------------------------------
TransferUsers(u, from, to, amount) ==
    AddBalance(AddBalance(u, from, -amount), to, amount)

TransferMoney(from, to, amount) ==
    /\ ops' = ops + 1
    /\ IF ~Exists(users, from) \/ users[from].balance < amount
       THEN /\ ret' = Ret("transfer_money", FALSE, "InsufficientFunds",
                          from, to, amount)
            /\ UNCHANGED <<users, transactions>>
       ELSE /\ users' = TransferUsers(users, from, to, amount)
            /\ transactions' =
                  Append(transactions, TxRow(from, to, amount, "transfer"))
            /\ ret' = Ret("transfer_money", TRUE, "OK", from, to, amount)
    /\ UNCHANGED <<ownership_history, work_assignments, prisoner_upgrades,
                   now, calls,
                   income_log, profit_log>>

\* ------------------------------------------------------------------------
\* buy_self_freedom
\* ------------------------------------------------------------------------
\* the checks of buy_self_freedom with the shield tested before the balance
SelfFreedomCheck_ShieldFirst(u, id, t) ==
    IF ~Exists(u, id) THEN "NotFound"
    ELSE IF u[id].owner_id = NULL THEN "NotOwned"
    ELSE IF ShieldActive(u, id, t) THEN "Shielded"
    ELSE IF u[id].balance < u[id].price THEN "InsufficientFunds"
    ELSE "OK"

\* the checks of buy_self_freedom, in the order of the code
SelfFreedomCheck(u, id, t) ==
    IF ~Exists(u, id) THEN "NotFound"
    ELSE IF u[id].owner_id = NULL THEN "NotOwned"
    ELSE IF u[id].balance < u[id].price THEN "InsufficientFunds"
    ELSE IF ShieldActive(u, id, t) THEN "Shielded"
    ELSE "OK"

\* self-liberation paying the price to the former owner
SelfFreedomUsers_PayOwner(u, id, price) ==
    AddBalance([u EXCEPT ![id].owner_id = NULL, ![id].balance = @ - price],
               u[id].owner_id, price)

\* UPDATE users SET owner_id = NULL, balance = balance - price
SelfFreedomUsers(u, id, price) ==
    [u EXCEPT ![id].owner_id = NULL, ![id].balance = @ - price]

BuySelfFreedom(id) ==
    LET err == SelfFreedomCheck(users, id, now)
    IN  /\ ops' = ops + 1
        /\ IF err = "OK"
           THEN LET price == users[id].price
                    old_owner == users[id].owner_id
                IN  /\ users' = SelfFreedomUsers(users, id, price)
                    /\ ownership_history' =
                          Append(ownership_history,
                                 HistoryRow(id, old_owner, NULL, price))
                    /\ transactions' =
                          Append(transactions,
                                 TxRow(id, NULL, price, "self_buyout"))
                    /\ ret' = Ret("buy_self_freedom", TRUE, "OK", id, id,
                                  price)
           ELSE /\ ret' = Ret("buy_self_freedom", FALSE, err, id, id, 0)
                /\ UNCHANGED <<users, ownership_history, transactions>>
        /\ UNCHANGED <<work_assignments, prisoner_upgrades, now, calls,
                       income_log, profit_log>>

\* ------------------------------------------------------------------------
\* activate_shield
\* ------------------------------------------------------------------------
\* int(x * 0.35) in IEEE doubles falls one short of the exact value for
\* these multiples of 20 (tabulated for x <= 3000).
Float035Low ==
    {180, 340, 360} \cup {x \in 660..720 : x % 20 = 0} \cup
    {x \in 1300..1460 : x % 20 = 0} \cup {x \in 2580..2920 : x % 20 = 0}

shield_cost(price) ==
    IF price \in Float035Low THEN (price * 35) \div 100 - 1
    ELSE (price * 35) \div 100

ShieldCheck(u, o, p, t) ==
    IF ~Exists(u, p) \/ u[p].owner_id # o THEN "NotOwner"
    ELSE IF ShieldActive(u, p, t) THEN "AlreadyShielded"
    ELSE IF ~Exists(u, o) THEN "TypeError"
    ELSE IF u[o].balance < shield_cost(u[p].price) THEN "InsufficientFunds"
    ELSE "OK"

ActivateShield(o, p) ==
    LET err == ShieldCheck(users, o, p, now)
    IN  /\ ops' = ops + 1
        /\ IF err = "OK"
           THEN LET cost == shield_cost(users[p].price)
                    u1 == [users EXCEPT
                              ![p].shield_active = TRUE,
                              ![p].shield_until = now + SHIELD_HOURS]
                IN  /\ users' = AddBalance(u1, o, -cost)
                    /\ transactions' =
                          Append(transactions,
                                 TxRow(o, p, cost, "shield_activation"))
                    /\ ret' = Ret("activate_shield", TRUE, "OK", o, p, cost)
           ELSE /\ ret' = Ret("activate_shield", FALSE, err, o, p, 0)
                /\ UNCHANGED <<users, transactions>>
        /\ UNCHANGED <<ownership_history, work_assignments,
                       prisoner_upgrades, now, calls,
                       income_log, profit_log>>

\* ------------------------------------------------------------------------
\* prisoner_upgrades
\* ------------------------------------------------------------------------
\* get_prisoner_upgrade_info: the table after the read, which inserts the
\* initial row of a prisoner that has none
UpgradeRowsAfterRead(up, p) ==
    IF p \in DOMAIN up THEN up
    ELSE [x \in DOMAIN up \cup {p} |->
             IF x = p THEN NewUpgradeRow ELSE up[x]]

\* round(multiplier * 1.2, 2), multiplier in hundredths
next_multiplier(m) == (m * 12 + 5) \div 10

\* the cost doubled at each level
next_upgrade_cost_double(cost) == cost * 2

\* int(upgrade_cost * 1.5)
next_upgrade_cost(cost) == (cost * 3) \div 2

\* the whole cost added to the price
price_increase_full(cost) == cost

\* int(upgrade_cost * 0.8)
price_increase(cost) == (cost * 8) \div 10

UpgradedRow(row) ==
    [level |-> row.level + 1,
     multiplier |-> next_multiplier(row.multiplier),
     next_cost |-> next_upgrade_cost(row.next_cost),
     total_invested |-> row.total_invested + row.next_cost]

UpgradeCheck(u, up, o, p) ==
    IF ~Exists(u, p) \/ u[p].owner_id # o THEN "NotOwner"
    ELSE IF ~Exists(u, o) THEN "TypeError"
    ELSE IF u[o].balance < UpgradeRowsAfterRead(up, p)[p].next_cost
    THEN "InsufficientFunds"
    ELSE "OK"

UpgradePrisoner(o, p) ==
    LET err == UpgradeCheck(users, prisoner_upgrades, o, p)
        up1 == UpgradeRowsAfterRead(prisoner_upgrades, p)
    IN  /\ ops' = ops + 1
        /\ IF err = "OK"
           THEN LET cost == up1[p].next_cost
                    u1 == AddBalance(users, o, -cost)
                IN  /\ users' = [u1 EXCEPT
                                   ![p].price = @ + price_increase(cost)]
                    /\ prisoner_upgrades' =
                          [up1 EXCEPT ![p] = UpgradedRow(up1[p])]
                    /\ transactions' =
                          Append(transactions, TxRow(o, p, cost, "upgrade"))
                    /\ ret' = Ret("upgrade_prisoner", TRUE, "OK", o, p, cost)
           ELSE /\ ret' = Ret("upgrade_prisoner", FALSE, err, o, p, 0)
                /\ prisoner_upgrades' =
                      IF err = "NotOwner" THEN prisoner_upgrades ELSE up1
                /\ UNCHANGED <<users, transactions>>
        /\ UNCHANGED <<ownership_history, work_assignments, now, calls,
                       income_log, profit_log>>

\* ------------------------------------------------------------------------
\* Work cycles
\* ------------------------------------------------------------------------
Max(a, b) == IF a >= b THEN a ELSE b

\* the reward without the minimum of 5 coins
expected_reward_NoMin(price, f) == ((price \div 20) * f) \div 100

\* int(max(5, price // 20) * reward_multiplier), the multiplier in hundredths
expected_reward(price, f) == (Max(5, price \div 20) * f) \div 100

RECURSIVE SetToSeq(_)
SetToSeq(S) ==
    IF S = {} THEN <<>>
    ELSE LET x == CHOOSE y \in S : \A z \in S : y >= z
         IN  <<x>> \o SetToSeq(S \ {x})

WorkRow(o, p, reward) ==
    [owner_id |-> o, prisoner_id |-> p, end_time |-> now + WORK_HOURS,
     expected_reward |-> reward, completed |-> FALSE]

IncompleteJobs(wa, o) ==
    {i \in DOMAIN wa : wa[i].owner_id = o /\ ~wa[i].completed}

\* every incomplete assignment taken as ready, whatever the clock
ReadyJobs_NoClock(wa, o, t) == IncompleteJobs(wa, o)

\* the ready assignments of every owner
ReadyJobs_Any(wa, o, t) ==
    {i \in DOMAIN wa : ~wa[i].completed /\ t >= wa[i].end_time}

\* incomplete assignments of the owner with datetime('now') >= end_time
ReadyJobs(wa, o, t) ==
    {i \in IncompleteJobs(wa, o) : t >= wa[i].end_time}

\* the checks of send_prisoners_to_work without the open assignments
SendCheck_NoWorkingCheck(u, wa, o) ==
    IF get_my_prisoners(u, o) = {} THEN "NoAssets" ELSE "OK"

\* the checks of send_prisoners_to_work with the open assignments first
SendCheck_WorkingFirst(u, wa, o) ==
    IF IncompleteJobs(wa, o) # {} THEN "AlreadyWorking"
    ELSE IF get_my_prisoners(u, o) = {} THEN "NoAssets"
    ELSE "OK"

SendCheck(u, wa, o) ==
    IF get_my_prisoners(u, o) = {} THEN "NoAssets"
    ELSE IF IncompleteJobs(wa, o) # {} THEN "AlreadyWorking"
    ELSE "OK"

\* send_prisoners_to_work(owner_id), the random factors drawn from F
SendWork(o, F) ==
    LET err == SendCheck(users, work_assignments, o)
        prisoners == SetToSeq(get_my_prisoners(users, o))
    IN  /\ ops' = ops + 1
        /\ IF err = "OK"
           THEN \E f \in [get_my_prisoners(users, o) -> F] :
                  LET rows == [i \in 1..Len(prisoners) |->
                                 WorkRow(o, prisoners[i],
                                    expected_reward(users[prisoners[i]].price,
                                                    f[prisoners[i]]))]
                  IN  /\ work_assignments' = work_assignments \o rows
                      /\ ret' = Ret("send_prisoners_to_work", TRUE, "OK", o,
                                    NULL, Len(prisoners))
           ELSE /\ ret' = Ret("send_prisoners_to_work", FALSE, err, o,
                              NULL, 0)
                /\ UNCHANGED work_assignments
        /\ UNCHANGED <<users, ownership_history, transactions,
                       prisoner_upgrades, now, calls,
                       income_log, profit_log>>

SendPrisonersToWork(o) == SendWork(o, Factors)

CollectWorkRewards(o) ==
    LET ready == ReadyJobs(work_assignments, o, now)
        total == SumOver(ready, [i \in ready |->
                                    work_assignments[i].expected_reward])
    IN  /\ ops' = ops + 1
        /\ IF ready = {}
           THEN /\ ret' = Ret("collect_work_rewards", FALSE, "NothingReady",
                              o, NULL, 0)
                /\ UNCHANGED <<users, work_assignments, transactions>>
           ELSE /\ work_assignments' =
                      [i \in DOMAIN work_assignments |->
                         IF i \in ready
                         THEN [work_assignments[i] EXCEPT !.completed = TRUE]
                         ELSE work_assignments[i]]
                /\ users' = AddBalance(users, o, total)
                /\ transactions' =
                      Append(transactions,
                             TxRow(NULL, o, total, "work_reward"))
                /\ ret' = Ret("collect_work_rewards", TRUE, "OK", o, NULL,
                              total)
        /\ UNCHANGED <<ownership_history, prisoner_upgrades, now, calls,
                       income_log, profit_log>>

\* ------------------------------------------------------------------------
\* start_handler / create_user
\* ------------------------------------------------------------------------
\* the new row left without its owner
create_user_NoOwner(u, id, referrer) ==
    [x \in DOMAIN u \cup {id} |-> IF x = id THEN NewUserRow(NULL) ELSE u[x]]

\* create_user(telegram_id, ..., referrer_id) for an id that has no row
create_user(u, id, referrer) ==
    [x \in DOMAIN u \cup {id} |->
        IF x = id THEN NewUserRow(referrer) ELSE u[x]]

\* create_user(telegram_id, username, first_name, referrer_id) called on
\* any id: the INSERT of an existing id raises IntegrityError
CreateUser(id, referrer) ==
    /\ ops' = ops + 1
    /\ IF Exists(users, id)
       THEN /\ ret' = Ret("create_user", FALSE, "AlreadyExists", id,
                          referrer, 0)
            /\ UNCHANGED <<users, ownership_history>>
       ELSE /\ users' = create_user(users, id, referrer)
            /\ ownership_history' =
                  IF referrer # NULL
                  THEN Append(ownership_history,
                              HistoryRow(id, NULL, referrer, 0))
                  ELSE ownership_history
            /\ ret' = Ret("create_user", TRUE, "OK", id, referrer, 0)
    /\ UNCHANGED <<transactions, work_assignments, prisoner_upgrades, now,
                   calls, income_log, profit_log>>

\* /start, with the referrer found by its referral code (an existing
\* account) or NULL
StartHandler(id, referrer) ==
    /\ ops' = ops + 1
    /\ referrer \in DOMAIN users \cup {NULL}
    /\ IF Exists(users, id)
       THEN /\ users' = IF referrer # NULL /\ users[id].owner_id = NULL
                        THEN [users EXCEPT ![id].owner_id = referrer]
                        ELSE users
            /\ UNCHANGED ownership_history
            /\ ret' = Ret("start", TRUE, "existing", id, referrer, 0)
       ELSE /\ users' = IF referrer # NULL
                        THEN AddPoints(create_user(users, id, referrer),
                                       referrer, REFERRAL_POINTS)
                        ELSE create_user(users, id, NULL)
            /\ ownership_history' =
                  IF referrer # NULL
                  THEN Append(ownership_history,
                              HistoryRow(id, NULL, referrer, 0))
                  ELSE ownership_history
            /\ ret' = Ret("start", TRUE, "created", id, referrer, 0)
    /\ UNCHANGED <<transactions, work_assignments, prisoner_upgrades, now,
                   calls,
                   income_log, profit_log>>

\* ------------------------------------------------------------------------
\* Scheduler jobs on prices
\* ------------------------------------------------------------------------
Min(a, b) == IF a <= b THEN a ELSE b

Abs(x) == IF x < 0 THEN -x ELSE x

\* rows of the account in ownership_history younger than 30 days
history_window(hist, a, t) ==
    {i \in DOMAIN hist : /\ hist[i].prisoner_id = a
                         /\ hist[i].timestamp > t - TRADE_WINDOW_HOURS}

\* frequency_multiplier of _calculate_liquidity_multiplier, in hundredths
frequency_multiplier(trade_count) ==
    IF trade_count = 0 THEN 100
    ELSE IF trade_count <= 2 THEN 105
    ELSE IF trade_count <= 5 THEN 115
    ELSE 125

\* trend_multiplier of _calculate_liquidity_multiplier, in hundredths;
\* AVG(price) is total / trade_count
trend_multiplier(price, total, trade_count, max_price) ==
    IF total > 0 /\ price * trade_count > total THEN 110
    ELSE IF max_price > 0 /\ price > max_price THEN 120
    ELSE 100

\* GameLogic._calculate_liquidity_multiplier(user_id), in ten-thousandths
liquidity_multiplier(u, hist, id, t) ==
    LET w == history_window(hist, id, t)
        total == SumOver(w, [i \in w |-> hist[i].price])
        max_price == IF w = {} THEN 0
                     ELSE CHOOSE m \in {hist[i].price : i \in w} :
                             \A i \in w : hist[i].price <= m
        price == IF Exists(u, id) THEN u[id].price ELSE 0
    IN  frequency_multiplier(Cardinality(w))
           * trend_multiplier(price, total, Cardinality(w), max_price)

\* one evaluation of the liquidity factor; it reads only
CalculateLiquidityMultiplier(id) ==
    /\ ops' = ops + 1
    /\ ret' = Ret("liquidity_multiplier", TRUE, "OK", id, NULL,
                  liquidity_multiplier(users, ownership_history, id, now))
    /\ UNCHANGED <<dbvars, now, calls, income_log, profit_log>>

\* the product bounded from below only
ClampMultiplier_NoCap(m) == Max(50, m)

\* min(4.0, max(0.5, product of the four multipliers)), in hundredths
ClampMultiplier(m) == Min(400, Max(50, m))

\* the recomputed price without the minimum price
calculate_dynamic_price_NoFloor(price, m) ==
    (price * ClampMultiplier(m)) \div 100

\* GameLogic.calculate_dynamic_price for an account of price `price` whose
\* four multipliers have the product m
calculate_dynamic_price(price, m) ==
    Max(MIN_PRICE, (price * ClampMultiplier(m)) \div 100)

\* abs(new_price - current_price) / current_price > 0.05
SignificantChange(cur, new) == cur > 0 /\ 20 * Abs(new - cur) > cur

\* the accounts read as somebody's prisoner by _calculate_empire_multiplier,
\* each read by get_prisoner_upgrade_info, which inserts a missing row
OwnedAccounts(u) == {p \in DOMAIN u : u[p].owner_id \in DOMAIN u}

\* GameLogic.calculate_dynamic_price(user_id) called by itself: the empire
\* factor reads every prisoner of the account through
\* get_prisoner_upgrade_info, which inserts and commits a missing row
CalculateDynamicPrice(id) ==
    /\ ops' = ops + 1
    /\ IF ~Exists(users, id)
       THEN /\ ret' = Ret("calculate_dynamic_price", TRUE, "OK", id, NULL,
                          STARTING_PRICE)
            /\ UNCHANGED prisoner_upgrades
       ELSE /\ \E m \in DynProducts :
                  ret' = Ret("calculate_dynamic_price", TRUE, "OK", id, NULL,
                             calculate_dynamic_price(users[id].price, m))
            /\ prisoner_upgrades' =
                  [p \in DOMAIN prisoner_upgrades
                            \cup get_my_prisoners(users, id) |->
                      IF p \in DOMAIN prisoner_upgrades
                      THEN prisoner_upgrades[p] ELSE NewUpgradeRow]
    /\ UNCHANGED <<users, ownership_history, transactions, work_assignments,
                   now, calls, income_log, profit_log>>

\* update_dynamic_prices_sync: every account is recomputed, the price is
\* written when it moved by more than 5%
UpdateDynamicPrices ==
    \E m \in [DOMAIN users -> DynProducts] :
       LET new == [id \in DOMAIN users |->
                     calculate_dynamic_price(users[id].price, m[id])]
           changed == {id \in DOMAIN users :
                         SignificantChange(users[id].price, new[id])}
       IN  /\ ops' = ops + 1
           /\ users' = [id \in DOMAIN users |->
                          IF id \in changed
                          THEN [users[id] EXCEPT !.price = new[id]]
                          ELSE users[id]]
           /\ prisoner_upgrades' =
                  [p \in DOMAIN prisoner_upgrades \cup OwnedAccounts(users) |->
                      IF p \in DOMAIN prisoner_upgrades
                      THEN prisoner_upgrades[p] ELSE NewUpgradeRow]
           /\ ret' = Ret("update_dynamic_prices", TRUE, "OK", NULL, NULL,
                         Cardinality(changed))
           /\ UNCHANGED <<ownership_history, transactions, work_assignments,
                          now, calls,
                          income_log, profit_log>>

\* max(50, int(current_price * change_factor))
market_price(cur, f) == Max(MIN_PRICE, (cur * f) \div 100)

\* simulate_market_changes_sync: each account is picked with probability
\* 0.2 (f[id] # NULL) and repriced by its own factor
SimulateMarketChanges ==
    \E f \in [DOMAIN users -> MarketFactors \cup {NULL}] :
       /\ ops' = ops + 1
       /\ users' = [id \in DOMAIN users |->
                      IF f[id] # NULL
                      THEN [users[id] EXCEPT
                               !.price = market_price(users[id].price, f[id])]
                      ELSE users[id]]
       /\ ret' = Ret("simulate_market_changes", TRUE, "OK", NULL, NULL,
                     Cardinality({id \in DOMAIN users : f[id] # NULL}))
       /\ UNCHANGED <<ownership_history, transactions, work_assignments,
                      prisoner_upgrades, now, calls,
                      income_log, profit_log>>

\* ------------------------------------------------------------------------
\* Hourly income job
\* ------------------------------------------------------------------------
\* int(base_income * income_multiplier), the multiplier in hundredths
enhanced_income(base, m) == (base * m) \div 100

\* DATE(...) of a clock value
Day(t) == t \div 24

\* log_profit_data: today's row of the user is updated, or a row is added
log_profit_data(pl, user, generated, received, t) ==
    LET today == {i \in DOMAIN pl :
                     pl[i].user_id = user /\ pl[i].day = Day(t)}
    IN  IF today # {}
        THEN LET i == CHOOSE x \in today : \A y \in today : x <= y
             IN  [pl EXCEPT ![i].profit_generated = @ + generated,
                            ![i].profit_received = @ + received]
        ELSE Append(pl, [user_id |-> user, profit_generated |-> generated,
                         profit_received |-> received, day |-> Day(t)])

\* the owners returned by the join of users with their prisoners
IncomeOwners(u) == {o \in DOMAIN u : get_my_prisoners(u, o) # {}}

\* user_incomes[o]['total_income'] for the bases b drawn per prisoner
total_income(u, up, o, b) ==
    LET ps == get_my_prisoners(u, o)
    IN  SumOver(ps, [p \in ps |-> enhanced_income(b[p], up[p].multiplier)])

\* The tables written by the second loop of generate_hourly_income
IncomeTables ==
    [users |-> users, income_log |-> income_log, profit_log |-> profit_log,
     transactions |-> transactions]

\* One owner of the second loop up to the commit of the first
\* log_profit_data (stage 1) or of the second one (stage 2): balance,
\* income_log and profit_log are written, the transaction is not
IncomeCredit(db, o, amount, count, t, stage) ==
    LET pl1 == log_profit_data(db.profit_log, o, 0, amount, t)
        pl2 == IF stage = 2 /\ db.users[o].owner_id # NULL
               THEN log_profit_data(pl1, db.users[o].owner_id, amount, 0, t)
               ELSE pl1
    IN  [db EXCEPT !.users = AddBalance(db.users, o, amount),
                   !.income_log = Append(@, [user_id |-> o,
                                             amount |-> amount,
                                             prisoner_count |-> count]),
                   !.profit_log = pl2]

\* One owner of the second loop, whole
IncomeOwner(db, o, amount, count, t) ==
    [IncomeCredit(db, o, amount, count, t, 2) EXCEPT
        !.transactions = Append(@, TxRow(NULL, o, amount, "income"))]

\* The second loop over the first n owners of `order`
RECURSIVE IncomeLoop(_, _, _, _, _, _, _)
IncomeLoop(db, u, up, order, b, t, n) ==
    IF n = 0 THEN db
    ELSE LET o == order[n]
         IN  IncomeOwner(IncomeLoop(db, u, up, order, b, t, n - 1), o,
                         total_income(u, up, o, b),
                         Cardinality(get_my_prisoners(u, o)), t)

\* the orders in which the owners can come out of the join
Orders(S) ==
    {s \in [1..Cardinality(S) -> S] : \A i, j \in DOMAIN s :
                                          i # j => s[i] # s[j]}

\* the prisoner_upgrades table after the first loop has read every prisoner
UpgradeRowsAfterJob(u, up) ==
    [p \in DOMAIN up \cup OwnedAccounts(u) |->
        IF p \in DOMAIN up THEN up[p] ELSE NewUpgradeRow]

\* generate_hourly_income, run to its final commit
GenerateHourlyIncome ==
    \E b \in [OwnedAccounts(users) -> IncomeBases],
       order \in Orders(IncomeOwners(users)) :
       LET up1 == UpgradeRowsAfterJob(users, prisoner_upgrades)
           db == IncomeLoop(IncomeTables, users, up1, order, b, now,
                            Len(order))
       IN  /\ ops' = ops + 1
           /\ prisoner_upgrades' = up1
           /\ users' = db.users
           /\ income_log' = db.income_log
           /\ profit_log' = db.profit_log
           /\ transactions' = db.transactions
           /\ ret' = Ret("generate_hourly_income", TRUE, "OK", NULL, NULL,
                         Len(order))
           /\ UNCHANGED <<ownership_history, work_assignments, now, calls>>

\* generate_hourly_income stopped (process killed, or an exception raised
\* to generate_hourly_income_job) while owner order[k] was in the second
\* loop: what the commits inside log_profit_data have made durable
HourlyIncomeInterrupted ==
    \E b \in [OwnedAccounts(users) -> IncomeBases],
       order \in Orders(IncomeOwners(users)), stage \in {1, 2} :
       \E k \in 1..Len(order) :
          LET up1 == UpgradeRowsAfterJob(users, prisoner_upgrades)
              done == IncomeLoop(IncomeTables, users, up1, order, b, now,
                                 k - 1)
              db == IncomeCredit(done, order[k],
                                 total_income(users, up1, order[k], b),
                                 Cardinality(get_my_prisoners(users,
                                                              order[k])),
                                 now, stage)
          IN  /\ ops' = ops + 1
              /\ prisoner_upgrades' = up1
              /\ users' = db.users
              /\ income_log' = db.income_log
              /\ profit_log' = db.profit_log
              /\ transactions' = db.transactions
              /\ ret' = Ret("generate_hourly_income", FALSE, "Interrupted",
                            NULL, order[k], 0)
              /\ UNCHANGED <<ownership_history, work_assignments, now,
                             calls>>

\* ------------------------------------------------------------------------
\* Clock
\* ------------------------------------------------------------------------
Tick(d) ==
    /\ ops' = ops + 1
    /\ now' = now + d
    /\ ret' = Ret("tick", TRUE, "OK", NULL, NULL, d)
    /\ UNCHANGED <<dbvars, calls,
                   income_log, profit_log>>

\* ------------------------------------------------------------------------
\* Specifications: engine calls run to completion, one at a time
\* ------------------------------------------------------------------------
EmptyTables ==
    /\ transactions = <<>>
    /\ work_assignments = <<>>
    /\ prisoner_upgrades = <<>>
    /\ now = 0
    /\ ret = Ret("init", TRUE, "OK", NULL, NULL, 0)
    /\ ops = 0
    /\ calls = [t \in Threads |-> NoCall]
    /\ income_log = <<>>
    /\ profit_log = <<>>

\* Two accounts created by create_user without a referrer; id 3 is unknown
Init ==
    /\ users = [id \in {1, 2} |-> NewUserRow(NULL)]
    /\ ownership_history = <<>>
    /\ EmptyTables

\* The whole engine
Next ==
    \/ \E b \in Ids, a \in Ids :
          ops < MaxOps /\ BuyPrisoner(b, a)
    \/ \E f \in Ids, t \in Ids, m \in Amounts :
          ops < MaxOps /\ TransferMoney(f, t, m)
    \/ \E id \in Ids :
          ops < MaxOps /\ BuySelfFreedom(id)
    \/ \E o \in Ids, p \in Ids :
          ops < MaxOps /\ ActivateShield(o, p)
    \/ \E o \in Ids, p \in Ids :
          ops < MaxOps /\ UpgradePrisoner(o, p)
    \/ \E o \in Ids :
          ops < MaxOps /\ SendPrisonersToWork(o)
    \/ \E o \in Ids :
          ops < MaxOps /\ CollectWorkRewards(o)
    \/ \E id \in Ids, r \in Ids \cup {NULL} :
          ops < MaxOps /\ StartHandler(id, r)
    \/ \E d \in TickHours :
          ops < MaxOps /\ Tick(d)

Spec == Init /\ [][Next]_vars

\* Three accounts created by create_user without a referrer
InitThree ==
    /\ users = [id \in Ids |-> NewUserRow(NULL)]
    /\ ownership_history = <<>>
    /\ EmptyTables

\* Trading: purchases, self-liberation, referral capture and upgrades
NextTrade ==
    \/ \E b \in Ids, a \in Ids :
          ops < MaxTradeOps /\ BuyPrisoner(b, a)
    \/ \E id \in Ids :
          ops < MaxTradeOps /\ BuySelfFreedom(id)
    \/ \E o \in Ids, p \in Ids :
          ops < MaxTradeOps /\ UpgradePrisoner(o, p)
    \/ \E id \in Ids, r \in Ids \cup {NULL} :
          ops < MaxTradeOps /\ StartHandler(id, r)

SpecTrade == InitThree /\ [][NextTrade]_vars

\* Shields: shield, clock, transfer, purchase and self-liberation
NextShield ==
    \/ \E b \in Ids, a \in Ids :
          ops < MaxShieldOps /\ BuyPrisoner(b, a)
    \/ \E id \in Ids :
          ops < MaxShieldOps /\ BuySelfFreedom(id)
    \/ \E o \in Ids, p \in Ids :
          ops < MaxShieldOps /\ ActivateShield(o, p)
    \/ \E f \in Ids, t \in Ids, m \in Gifts :
          ops < MaxShieldOps /\ TransferMoney(f, t, m)
    \/ \E d \in TickHours :
          ops < MaxShieldOps /\ Tick(d)

SpecShield == InitThree /\ [][NextShield]_vars

\* Account 1 has captured accounts 2 and 3 by its referral link
InitOwner ==
    /\ users = [id \in Ids |->
                  IF id = 1
                  THEN [NewUserRow(NULL) EXCEPT !.points = 2 * REFERRAL_POINTS]
                  ELSE NewUserRow(1)]
    /\ ownership_history =
          << [prisoner_id |-> 2, old_owner_id |-> NULL, new_owner_id |-> 1,
              price |-> 0, timestamp |-> 0],
             [prisoner_id |-> 3, old_owner_id |-> NULL, new_owner_id |-> 1,
              price |-> 0, timestamp |-> 0] >>
    /\ EmptyTables

\* Work cycles
NextWork ==
    \/ \E o \in Ids :
          ops < MaxWorkOps /\ SendPrisonersToWork(o)
    \/ \E o \in Ids :
          ops < MaxWorkOps /\ CollectWorkRewards(o)
    \/ \E b \in Ids, a \in Ids :
          ops < MaxWorkOps /\ BuyPrisoner(b, a)
    \/ \E id \in Ids :
          ops < MaxWorkOps /\ BuySelfFreedom(id)
    \/ \E d \in TickHours :
          ops < MaxWorkOps /\ Tick(d)

SpecWork == InitOwner /\ [][NextWork]_vars

\* the wall clock moves on by itself, followed up to MaxClock
ClockAdvances == \E d \in TickHours : now + d <= MaxClock /\ Tick(d)

\* Work cycles under a clock that keeps running
NextWorkLive ==
    \/ \E o \in Ids :
          /\ ops < MaxLiveOps /\ now + WORK_HOURS <= MaxClock
          /\ SendPrisonersToWork(o)
    \/ \E o \in Ids :
          ops < MaxLiveOps /\ CollectWorkRewards(o)
    \/ \E b \in Ids, a \in Ids :
          ops < MaxLiveOps /\ BuyPrisoner(b, a)
    \/ ClockAdvances

SpecWorkLive ==
    InitOwner /\ [][NextWorkLive]_vars /\ WF_vars(ClockAdvances)

\* Account 1 holds account 2, whose price has moved to any of RewardPrices
InitPriced ==
    /\ \E p \in RewardPrices :
          users = [id \in Ids |->
                     IF id = 1
                     THEN [NewUserRow(NULL) EXCEPT !.points = REFERRAL_POINTS]
                     ELSE IF id = 2
                     THEN [NewUserRow(1) EXCEPT !.price = p]
                     ELSE NewUserRow(NULL)]
    /\ ownership_history =
          << [prisoner_id |-> 2, old_owner_id |-> NULL, new_owner_id |-> 1,
              price |-> 0, timestamp |-> 0] >>
    /\ EmptyTables

\* One work cycle with the random factor drawn from the whole range
NextReward ==
    \/ \E o \in Ids :
          ops < MaxRewardOps /\ SendWork(o, RewardFactors)
    \/ \E o \in Ids :
          ops < MaxRewardOps /\ CollectWorkRewards(o)
    \/ \E d \in TickHours :
          ops < MaxRewardOps /\ Tick(d)

SpecReward == InitPriced /\ [][NextReward]_vars

\* Prices: purchases, upgrades and the two scheduler jobs on two accounts
NextPrice ==
    \/ \E b \in Ids, a \in Ids :
          ops < MaxPriceOps /\ BuyPrisoner(b, a)
    \/ \E o \in Ids, p \in Ids :
          ops < MaxPriceOps /\ UpgradePrisoner(o, p)
    \/ ops < MaxPriceOps /\ UpdateDynamicPrices
    \/ ops < MaxPriceOps /\ SimulateMarketChanges

SpecPrice == Init /\ [][NextPrice]_vars

\* Shield cost: capture, upgrade, transfer and shield activation
NextCost ==
    \/ \E id \in Ids, r \in Ids \cup {NULL} :
          ops < MaxCostOps /\ StartHandler(id, r)
    \/ \E o \in Ids, p \in Ids :
          ops < MaxCostOps /\ UpgradePrisoner(o, p)
    \/ \E f \in Ids, t \in Ids, m \in CostGifts :
          ops < MaxCostOps /\ TransferMoney(f, t, m)
    \/ \E o \in Ids, p \in Ids :
          ops < MaxCostOps /\ ActivateShield(o, p)
    \/ \E d \in TickHours :
          ops < MaxCostOps /\ Tick(d)

SpecCost == InitThree /\ [][NextCost]_vars

\* Hourly income: the job, whole or interrupted, between purchases and
\* upgrades
NextIncome ==
    \/ ops < MaxIncomeOps /\ GenerateHourlyIncome
    \/ ops < MaxIncomeOps /\ HourlyIncomeInterrupted
    \/ \E b \in Ids, a \in Ids :
          ops < MaxIncomeOps /\ BuyPrisoner(b, a)
    \/ \E o \in Ids, p \in Ids :
          ops < MaxIncomeOps /\ UpgradePrisoner(o, p)
    \/ \E d \in TickHours :
          ops < MaxIncomeOps /\ Tick(d)

SpecIncome == InitOwner /\ [][NextIncome]_vars

\* Accounts: creation, capture by referral link and purchases
NextAccounts ==
    \/ \E id \in Ids, r \in Ids \cup {NULL} :
          ops < MaxAccountOps /\ CreateUser(id, r)
    \/ \E id \in Ids, r \in Ids \cup {NULL} :
          ops < MaxAccountOps /\ StartHandler(id, r)
    \/ \E b \in Ids, a \in Ids :
          ops < MaxAccountOps /\ BuyPrisoner(b, a)

SpecAccounts == Init /\ [][NextAccounts]_vars

\* Account 1 has captured k accounts by its referral link and the market
\* job has moved its price; accounts 6 and 7 are free
InitEmpire ==
    /\ \E k \in EmpireSizes, p \in EmpirePrices :
          /\ users = [id \in EmpireIds |->
                         IF id = 1
                         THEN [NewUserRow(NULL) EXCEPT
                                  !.points = k * REFERRAL_POINTS,
                                  !.price = p]
                         ELSE IF id <= k + 1 THEN NewUserRow(1)
                         ELSE NewUserRow(NULL)]
          /\ ownership_history =
                [i \in 1..k |->
                    [prisoner_id |-> i + 1, old_owner_id |-> NULL,
                     new_owner_id |-> 1, price |-> 0, timestamp |-> 0]]
    /\ EmptyTables

\* Purchases of the owner of an empire and of one of its assets
NextEmpire ==
    \/ \E b \in EmpireBuyers, a \in EmpireAssets :
          ops < MaxEmpireOps /\ BuyPrisoner(b, a)
    \/ \E id \in EmpireAssets :
          ops < MaxEmpireOps /\ BuySelfFreedom(id)

SpecEmpire == InitEmpire /\ [][NextEmpire]_vars

\* Trades and evaluations of the liquidity factor
NextLiquidity ==
    \/ \E b \in Ids, a \in Ids :
          ops < MaxLiquidityOps /\ BuyPrisoner(b, a)
    \/ \E id \in Ids :
          ops < MaxLiquidityOps /\ BuySelfFreedom(id)
    \/ \E id \in Ids :
          ops < MaxLiquidityOps /\ CalculateLiquidityMultiplier(id)

SpecLiquidity == InitThree /\ [][NextLiquidity]_vars

\* The price computation called between trades and upgrades
NextCompute ==
    \/ \E id \in Ids :
          ops < MaxComputeOps /\ CalculateDynamicPrice(id)
    \/ \E b \in Ids, a \in Ids :
          ops < MaxComputeOps /\ BuyPrisoner(b, a)
    \/ \E o \in Ids, p \in Ids :
          ops < MaxComputeOps /\ UpgradePrisoner(o, p)

SpecCompute == InitOwner /\ [][NextCompute]_vars

\* The calls that write ownership_history
NextChain ==
    \/ \E id \in Ids, r \in Ids \cup {NULL} :
          ops < MaxChainOps /\ CreateUser(id, r)
    \/ \E b \in Ids, a \in Ids :
          ops < MaxChainOps /\ BuyPrisoner(b, a)
    \/ \E id \in Ids :
          ops < MaxChainOps /\ BuySelfFreedom(id)

SpecChain == Init /\ [][NextChain]_vars

\* ------------------------------------------------------------------------
\* buy_prisoner called from two threads, each on its own connection.  The
\* reads of lines 288-311 return before the first UPDATE of line 344; the
\* UPDATEs and INSERTs of lines 344-380 are one SQLite write transaction.
\* ------------------------------------------------------------------------
RaceCheck(t, b, a) ==
    LET c == BuyCheck(users, b, a, now)
    IN  /\ calls[t].pc = "idle"
        /\ ops' = ops + 1
        /\ users' = c.users
        /\ IF c.err = "OK"
           THEN /\ calls' = [calls EXCEPT ![t] =
                       [pc |-> "checked", buyer |-> b, prisoner |-> a,
                        price |-> c.price, old_owner |-> c.old_owner,
                        ok |-> FALSE, err |-> "none",
                        checked_at |-> ops + 1, committed_at |-> 0]]
                /\ UNCHANGED ret
           ELSE /\ calls' = [calls EXCEPT ![t] =
                       [pc |-> "done", buyer |-> b, prisoner |-> a,
                        price |-> 0, old_owner |-> NULL,
                        ok |-> FALSE, err |-> c.err,
                        checked_at |-> ops + 1, committed_at |-> 0]]
                /\ ret' = Ret("buy_prisoner", FALSE, c.err, b, a, 0)
        /\ UNCHANGED <<ownership_history, transactions, work_assignments,
                       prisoner_upgrades, now,
                       income_log, profit_log>>

RaceCommit(t) ==
    /\ calls[t].pc = "checked"
    /\ ops' = ops + 1
    /\ BuyWrite(users, calls[t].buyer, calls[t].prisoner, calls[t].price,
                calls[t].old_owner)
    /\ calls' = [calls EXCEPT ![t].pc = "done", ![t].ok = TRUE,
                              ![t].err = "OK", ![t].committed_at = ops + 1]
    /\ ret' = Ret("buy_prisoner", TRUE, "OK", calls[t].buyer,
                  calls[t].prisoner, calls[t].price)
    /\ UNCHANGED <<work_assignments, prisoner_upgrades, now,
                   income_log, profit_log>>

\* Each thread makes one call; account 1 holds accounts 2 and 3
NextRace ==
    \/ \E t \in Threads, b \in Ids, a \in Ids : RaceCheck(t, b, a)
    \/ \E t \in Threads : RaceCommit(t)

SpecRace == InitOwner /\ [][NextRace]_vars

\* ------------------------------------------------------------------------
\* Claims
\* ------------------------------------------------------------------------
MoneyOps == {"buy_prisoner", "buy_self_freedom", "transfer_money",
             "upgrade_prisoner"}

\* the next-upgrade cost a call of upgrade_prisoner reads for prisoner p
CostRead(up, p) ==
    IF p \in DOMAIN up THEN up[p].next_cost ELSE UPGRADE_BASE_COST

LastRow(table) == table[Len(table)]

\* C1 as stated: every Purchase, SelfLiberation, Transfer or Upgrade call,
\* successful or failed, leaves the sum of all balances unchanged.
C1_SumUnchanged ==
    [][ret'.op \in MoneyOps => TotalBalance(users') = TotalBalance(users)]_vars

\* C1 amended: a failed call, a Purchase of an asset held by an existing
\* account and a Transfer to an existing account leave the sum of all
\* balances unchanged; a successful Purchase of an unowned asset and a
\* successful SelfLiberation lower it by exactly the price paid, and a
\* successful Upgrade lowers it by exactly the upgrade cost paid.
C1_SumAmended ==
    [][ret'.op \in MoneyOps =>
         LET d == TotalBalance(users') - TotalBalance(users)
             x == ret'.target
         IN  /\ ~ret'.ok => d = 0
             /\ (ret'.ok /\ ret'.op = "buy_prisoner") =>
                  d = IF users[x].owner_id \in DOMAIN users THEN 0
                      ELSE -users[x].price
             /\ (ret'.ok /\ ret'.op = "buy_self_freedom") =>
                  d = -users[x].price
             /\ (ret'.ok /\ ret'.op = "upgrade_prisoner") =>
                  d = -CostRead(prisoner_upgrades, x)
             /\ (ret'.ok /\ ret'.op = "transfer_money"
                    /\ x \in DOMAIN users) => d = 0
      ]_vars

\* a Purchase of an unowned asset has taken its price out of circulation
C1_Witness ==
    /\ ret.op = "buy_prisoner" /\ ret.ok
    /\ LastRow(ownership_history).old_owner_id = NULL
    /\ TotalBalance(users) =
          STARTING_BALANCE * Cardinality(DOMAIN users) - ret.amount

\* C2: a successful Purchase at pre-call price p debits the buyer by
\* exactly p, credits the previous owner (if there is one) by exactly p,
\* and changes no other balance.
C2_PurchaseLegs ==
    [][(ret'.op = "buy_prisoner" /\ ret'.ok) =>
         LET b == ret'.who
             a == ret'.target
             p == users[a].price
             o == users[a].owner_id
         IN  /\ users'[b].balance = users[b].balance - p
             /\ o \in DOMAIN users =>
                  users'[o].balance = users[o].balance + p
             /\ \A x \in DOMAIN users \ {b, o} :
                  users'[x].balance = users[x].balance
             /\ DOMAIN users' = DOMAIN users
      ]_vars

\* an owned asset has been bought and its previous owner holds the price
C2_Witness ==
    /\ ret.op = "buy_prisoner" /\ ret.ok
    /\ LastRow(ownership_history).old_owner_id \in DOMAIN users
    /\ users[LastRow(ownership_history).old_owner_id].balance =
          STARTING_BALANCE + ret.amount
    /\ users[ret.who].balance = STARTING_BALANCE - ret.amount

\* two calls that both passed their checks before either wrote
Overlapped(t1, t2) ==
    /\ calls[t1].checked_at > 0 /\ calls[t2].checked_at > 0
    /\ calls[t1].committed_at > calls[t2].checked_at
    /\ calls[t2].committed_at > calls[t1].checked_at

\* C3: of two Purchase calls by different buyers against the same asset
\* that both pass the checks before either commits, at most one succeeds
\* (the other is rejected with Conflict).
C3_AtMostOneSucceeds ==
    \A t1 \in Threads, t2 \in Threads :
        (/\ t1 # t2
         /\ calls[t1].pc = "done" /\ calls[t2].pc = "done"
         /\ calls[t1].prisoner = calls[t2].prisoner
         /\ calls[t1].buyer # calls[t2].buyer
         /\ Overlapped(t1, t2))
        => \/ ~(calls[t1].ok /\ calls[t2].ok)
           \/ "Conflict" \in {calls[t1].err, calls[t2].err}

\* C4: a Purchase call debits its buyer (and credits the previous owner)
\* only when its write is committed against the owner it observed at its
\* checks.
C4_CommitAgainstObservedOwner ==
    [][\A t \in Threads :
          (calls[t].pc = "checked" /\ calls'[t].pc = "done" /\ calls'[t].ok)
          => users[calls[t].prisoner].owner_id = calls[t].old_owner
      ]_vars

\* C5: every account's balance is >= 0 in every reachable state.
C5_BalancesNonNegative ==
    \A id \in DOMAIN users : users[id].balance >= 0

\* an owned account whose shield flag and expiry are set
HasShield(a) ==
    /\ a \in DOMAIN users
    /\ users[a].owner_id # NULL
    /\ users[a].shield_active
    /\ users[a].shield_until # NULL

\* the preconditions of a Purchase other than the shield
CanBuy(b, a) ==
    /\ b \in DOMAIN users /\ a \in DOMAIN users
    /\ b # a /\ users[a].owner_id # b
    /\ users[b].balance >= users[a].price

C7_PriceRise ==
    [][(ret'.op = "buy_prisoner" /\ ret'.ok) =>
          10 * users'[ret'.target].price >= 13 * users[ret'.target].price
      ]_vars

\* C7 amended: after a successful Purchase at price p the new price is at
\* least floor(1.3 * p), that is 10 * new price > 13 * p - 10.
C7_PriceRiseFloor ==
    [][(ret'.op = "buy_prisoner" /\ ret'.ok) =>
          10 * users'[ret'.target].price > 13 * users[ret'.target].price - 10
      ]_vars

\* an asset bought at 169 is priced 219, below 219.7
C7_Witness ==
    /\ ret.op = "buy_prisoner" /\ ret.ok /\ ret.amount = 169
    /\ users[ret.target].price = 219

\* C8: CollectRewards before every end time fails with NothingReady and
\* credits nothing; after all end times it credits the owner exactly the
\* sum of the stored expected rewards and completes the assignments; a
\* CollectRewards right after a successful one fails with NothingReady and
\* credits nothing.
C8_CollectRewards ==
    [][(ret'.op = "collect_work_rewards") =>
          LET o == ret'.who
              open == {i \in DOMAIN work_assignments :
                          /\ work_assignments[i].owner_id = o
                          /\ ~work_assignments[i].completed}
              due == SumOver(open, [i \in open |->
                                      work_assignments[i].expected_reward])
          IN  /\ (open # {} /\ \A i \in open :
                                  now < work_assignments[i].end_time) =>
                    /\ ~ret'.ok /\ ret'.err = "NothingReady"
                    /\ users' = users
                    /\ work_assignments' = work_assignments
              /\ (open # {} /\ \A i \in open :
                                  now >= work_assignments[i].end_time) =>
                    /\ ret'.ok
                    /\ users'[o].balance = users[o].balance + due
                    /\ \A x \in DOMAIN users \ {o} :
                          users'[x].balance = users[x].balance
                    /\ \A i \in open : work_assignments'[i].completed
              /\ (ret.op = "collect_work_rewards" /\ ret.ok
                     /\ ret.who = o) =>
                    /\ ~ret'.ok /\ ret'.err = "NothingReady"
                    /\ users' = users
      ]_vars

\* the owner collected both rewards once and a second call found nothing
C8_Witness ==
    /\ ret.op = "collect_work_rewards" /\ ~ret.ok
    /\ Len(work_assignments) = 2
    /\ \A i \in DOMAIN work_assignments :
          work_assignments[i].completed /\ work_assignments[i].owner_id = 1
    /\ users[1].balance =
          STARTING_BALANCE + work_assignments[1].expected_reward
                           + work_assignments[2].expected_reward

\* C9: a track starts at level 1, multiplier 1.00, cost 100, invested 0;
\* each successful Upgrade adds 1 to the level, multiplies the multiplier
\* by 1.2 rounded to 2 decimals, sets the cost to floor(1.5 * cost) and
\* adds the paid cost to invested; level 2 is (1.20, 150, 100) and level 3
\* is (1.44, 225, 250).
C9_UpgradeProgression ==
    [][(ret'.op = "upgrade_prisoner" /\ ret'.ok) =>
          LET p == ret'.target
              old == IF p \in DOMAIN prisoner_upgrades
                     THEN prisoner_upgrades[p]
                     ELSE [level |-> 1, multiplier |-> 100,
                           next_cost |-> 100, total_invested |-> 0]
              new == prisoner_upgrades'[p]
          IN  /\ new.level = old.level + 1
              /\ 10 * new.multiplier - 12 * old.multiplier \in -4..4
              /\ 2 * new.next_cost <= 3 * old.next_cost
              /\ 3 * old.next_cost < 2 * new.next_cost + 2
              /\ new.total_invested = old.total_invested + old.next_cost
              /\ new.level = 2 =>
                    /\ new.multiplier = 120 /\ new.next_cost = 150
                    /\ new.total_invested = 100
              /\ new.level = 3 =>
                    /\ new.multiplier = 144 /\ new.next_cost = 225
                    /\ new.total_invested = 250
      ]_vars

\* a track upgraded twice
C9_Witness ==
    /\ ret.op = "upgrade_prisoner" /\ ret.ok
    /\ prisoner_upgrades[ret.target] =
          [level |-> 3, multiplier |-> 144, next_cost |-> 225,
           total_invested |-> 250]

\* an account as create_user leaves it, with no ownership record
Fresh(id) ==
    /\ id \in DOMAIN users
    /\ users[id].balance = 300 /\ users[id].price = 100
    /\ users[id].owner_id = NULL /\ users[id].points = 0
    /\ \A i \in DOMAIN ownership_history :
          ownership_history[i].prisoner_id # id

\* C10: Purchase(A, B) between two fresh accounts (balance 300, price 100,
\* no owner, 0 points) succeeds and yields A.balance = 200,
\* B.balance = 300, B.owner = A, B.price = 130 and 0.01 more loyalty
\* points for A.
C10_EndToEnd ==
    [][\A A \in Ids, B \in Ids :
          (/\ A # B /\ Fresh(A) /\ Fresh(B)
           /\ ret'.op = "buy_prisoner" /\ ret'.who = A /\ ret'.target = B)
          => /\ ret'.ok
             /\ users'[A].balance = 200
             /\ users'[B].balance = 300
             /\ users'[B].owner_id = A
             /\ users'[B].price = 130
             /\ users'[A].points = users[A].points + 100
      ]_vars

\* the scenario's final state
C10_Witness ==
    /\ ret = Ret("buy_prisoner", TRUE, "OK", 1, 2, 100)
    /\ users[1].balance = 200 /\ users[1].points = 100
    /\ users[2].balance = 300 /\ users[2].owner_id = 1
    /\ users[2].price = 130
    /\ Len(ownership_history) = 1

\* C11: the expected reward stored by SendToWork for an asset of price p
\* is floor(max(5, floor(p / 20)) * f) for a factor f in [0.8, 1.2], hence
\* between floor(0.8 * b) and floor(1.2 * b) for b = max(5, floor(p / 20));
\* prices 100, 300 and 1000 give the ranges [4,6], [12,18] and [40,60].
C11_RewardRange ==
    [][(ret'.op = "send_prisoners_to_work" /\ ret'.ok) =>
          \A i \in DOMAIN work_assignments' \ DOMAIN work_assignments :
             LET r == work_assignments'[i].expected_reward
                 p == users[work_assignments'[i].prisoner_id].price
                 b == IF p \div 20 < 5 THEN 5 ELSE p \div 20
             IN  /\ \E f \in 80..120 : 100 * r <= b * f /\ b * f < 100 * r + 100
                 /\ (8 * b) \div 10 <= r /\ r <= (12 * b) \div 10
                 /\ p = 100 => r \in 4..6
                 /\ p = 300 => r \in 12..18
                 /\ p = 1000 => r \in 40..60
      ]_vars

\* an asset priced 1000 was sent to work at the top of the range
C11_Witness ==
    /\ ret.op = "send_prisoners_to_work" /\ ret.ok
    /\ users[2].price = 1000
    /\ Len(work_assignments) = 1
    /\ work_assignments[1].expected_reward = 60

\* C12: in every reachable state no account's owner reference equals the
\* account's own identity.
C12_NoSelfOwnership ==
    \A id \in DOMAIN users : users[id].owner_id # id

\* C13: in every reachable state, after any sequence of Purchase, Upgrade,
\* dynamic-price recompute and market-fluctuation steps, every account's
\* price is at least the floor 50.
C13_PriceFloor ==
    \A id \in DOMAIN users : users[id].price >= 50

\* a recompute whose product would give 42 left the price at the floor
C13_Witness ==
    /\ ret.op = "update_dynamic_prices"
    /\ \E id \in DOMAIN users : users[id].price = 50

\* C14: Purchase(buyer, asset) fails with SelfTrade if buyer = asset,
\* otherwise with AlreadyOwned if asset.owner = buyer, otherwise with
\* Shielded if the asset's shield is unexpired, otherwise with
\* InsufficientFunds if buyer.balance < asset.price; every failed Purchase
\* leaves all balances, owner references, prices, loyalty points, ownership
\* records and ledger entries unchanged.
C14_PurchaseErrors ==
    [][(ret'.op = "buy_prisoner" /\ ret'.target \in DOMAIN users) =>
          LET b == ret'.who
              a == ret'.target
              unexpired == /\ users[a].shield_active
                           /\ users[a].shield_until # NULL
                           /\ now < users[a].shield_until
          IN  /\ IF b = a THEN ret'.err = "SelfTrade"
                 ELSE IF users[a].owner_id = b THEN ret'.err = "AlreadyOwned"
                 ELSE IF unexpired THEN ret'.err = "Shielded"
                 ELSE IF b \in DOMAIN users
                         /\ users[b].balance < users[a].price
                 THEN ret'.err = "InsufficientFunds"
                 ELSE b \in DOMAIN users => ret'.ok
              /\ ~ret'.ok =>
                    /\ DOMAIN users' = DOMAIN users
                    /\ \A id \in DOMAIN users :
                          /\ users'[id].balance = users[id].balance
                          /\ users'[id].owner_id = users[id].owner_id
                          /\ users'[id].price = users[id].price
                          /\ users'[id].points = users[id].points
                    /\ ownership_history' = ownership_history
                    /\ transactions' = transactions
      ]_vars

\* a Purchase of a shielded asset by a buyer who could not pay either was
\* refused as Shielded
C14_Witness ==
    /\ ret.op = "buy_prisoner" /\ ret.err = "Shielded"
    /\ ret.who \in DOMAIN users /\ ret.target \in DOMAIN users
    /\ users[ret.who].balance < users[ret.target].price

\* the rows a step appended to a table
Appended(old, new) == SubSeq(new, Len(old) + 1, Len(new))

\* C15 as stated: every successful Purchase, whether the asset was owned or
\* unowned before, appends exactly one OwnershipRecord (asset, previous
\* owner, buyer, price paid) and exactly two LedgerEntry rows (one sale leg
\* and one purchase leg).
C15_PurchaseRows ==
    [][(ret'.op = "buy_prisoner" /\ ret'.ok) =>
          LET b == ret'.who
              a == ret'.target
              h == Appended(ownership_history, ownership_history')
              l == Appended(transactions, transactions')
          IN  /\ Len(h) = 1
              /\ h[1].prisoner_id = a /\ h[1].new_owner_id = b
              /\ h[1].old_owner_id = users[a].owner_id
              /\ h[1].price = users[a].price
              /\ Len(l) = 2
              /\ {l[i].transaction_type : i \in 1..2} = {"sale", "purchase"}
      ]_vars

\* C15 amended: every successful Purchase appends exactly one
\* OwnershipRecord (asset, previous owner, buyer, price paid) and one
\* purchase LedgerEntry (buyer to asset, price paid); it appends one sale
\* LedgerEntry (buyer to previous owner, price paid) before it exactly when
\* the asset had an owner, so two rows for an owned and one for an unowned
\* asset.
C15_PurchaseRowsAmended ==
    [][(ret'.op = "buy_prisoner" /\ ret'.ok) =>
          LET b == ret'.who
              a == ret'.target
              p == users[a].price
              o == users[a].owner_id
              h == Appended(ownership_history, ownership_history')
              l == Appended(transactions, transactions')
              buy == [from_user_id |-> b, to_user_id |-> a, amount |-> p,
                      transaction_type |-> "purchase"]
              sale == [from_user_id |-> b, to_user_id |-> o, amount |-> p,
                       transaction_type |-> "sale"]
          IN  /\ Len(h) = 1
              /\ h[1].prisoner_id = a /\ h[1].new_owner_id = b
              /\ h[1].old_owner_id = o /\ h[1].price = p
              /\ l = IF o # NULL THEN <<sale, buy>> ELSE <<buy>>
      ]_vars

\* an owned asset changed hands: a sale and a purchase leg were logged
C15_Witness ==
    /\ ret.op = "buy_prisoner" /\ ret.ok
    /\ Len(transactions) >= 3
    /\ transactions[Len(transactions)].transaction_type = "purchase"
    /\ transactions[Len(transactions) - 1].transaction_type = "sale"
    /\ transactions[Len(transactions) - 1].to_user_id
          = ownership_history[Len(ownership_history)].old_owner_id

\* C16: a successful SelfLiberation(asset) debits the asset's own balance
\* by exactly its current price, credits no other account, sets the asset's
\* owner to none, appends one OwnershipRecord with new-owner = null and one
\* LedgerEntry with source = asset and no destination.
C16_SelfLiberation ==
    [][(ret'.op = "buy_self_freedom" /\ ret'.ok) =>
          LET a == ret'.who
              h == Appended(ownership_history, ownership_history')
              l == Appended(transactions, transactions')
          IN  /\ users'[a].balance = users[a].balance - users[a].price
              /\ \A x \in DOMAIN users \ {a} :
                    users'[x].balance = users[x].balance
              /\ users'[a].owner_id = NULL
              /\ Len(h) = 1
              /\ h[1].prisoner_id = a /\ h[1].new_owner_id = NULL
              /\ h[1].old_owner_id = users[a].owner_id
              /\ h[1].price = users[a].price
              /\ Len(l) = 1
              /\ l[1].from_user_id = a /\ l[1].to_user_id = NULL
              /\ l[1].amount = users[a].price
      ]_vars

\* an asset bought for 100 has freed itself at its new price 130
C16_Witness ==
    /\ ret = Ret("buy_self_freedom", TRUE, "OK", 2, 2, 130)
    /\ users[2].owner_id = NULL /\ users[2].balance = 170
    /\ users[1].balance = 200

\* C17: ShieldActivate(owner, asset) fails with NotOwner if asset.owner is
\* not the owner, with AlreadyShielded if and only if the asset has a shield
\* whose expiry is still in the future, and with InsufficientFunds if
\* owner.balance < floor(35% of the asset's current price); every failed
\* ShieldActivate leaves balances and shield state unchanged.
C17_ShieldErrors ==
    [][(ret'.op = "activate_shield" /\ ret'.who \in DOMAIN users
                                   /\ ret'.target \in DOMAIN users) =>
          LET o == ret'.who
              p == ret'.target
              unexpired == /\ users[p].shield_active
                           /\ users[p].shield_until # NULL
                           /\ now < users[p].shield_until
          IN  /\ users[p].owner_id # o => ret'.err = "NotOwner"
              /\ users[p].owner_id = o =>
                    /\ ret'.err = "AlreadyShielded" <=> unexpired
                    /\ (~unexpired /\ users[o].balance
                                        < (35 * users[p].price) \div 100)
                          => ret'.err = "InsufficientFunds"
              /\ ~ret'.ok => users' = users
      ]_vars

\* C18: a successful ShieldActivate(owner, asset) debits the owner by
\* exactly floor(35% of the asset's current price), credits no account,
\* sets the asset's shield active with expiry = now + 24 hours, appends
\* exactly one LedgerEntry and leaves the asset's owner and price unchanged.
C18_ShieldActivate ==
    [][(ret'.op = "activate_shield" /\ ret'.ok) =>
          LET o == ret'.who
              p == ret'.target
          IN  /\ users'[o].balance
                    = users[o].balance - (35 * users[p].price) \div 100
              /\ \A x \in DOMAIN users \ {o} :
                    users'[x].balance = users[x].balance
              /\ users'[p].shield_active
              /\ users'[p].shield_until = now + 24
              /\ Len(Appended(transactions, transactions')) = 1
              /\ users'[p].owner_id = users[p].owner_id
              /\ users'[p].price = users[p].price
      ]_vars

\* the incomplete assignments of an owner
OpenJobs(o) ==
    {i \in DOMAIN work_assignments :
        work_assignments[i].owner_id = o /\ ~work_assignments[i].completed}

\* the accounts an owner holds
Owned(o) == {p \in DOMAIN users : users[p].owner_id = o}

\* C19 as stated: SendToWork(owner) fails with AlreadyWorking whenever any
\* incomplete assignment exists for that owner, whatever the owner
\* currently owns and whether those assignments are still working or
\* already ready, and fails with NoAssets when the owner owns nothing; a
\* failed SendToWork creates no assignment.
C19_SendErrors ==
    [][(ret'.op = "send_prisoners_to_work") =>
          LET o == ret'.who
          IN  /\ OpenJobs(o) # {} => ret'.err = "AlreadyWorking"
              /\ (OpenJobs(o) = {} /\ Owned(o) = {}) => ret'.err = "NoAssets"
              /\ ~ret'.ok => work_assignments' = work_assignments
      ]_vars

\* C19 amended: SendToWork(owner) fails with NoAssets when the owner owns
\* nothing, even if incomplete assignments of that owner exist; when the
\* owner owns something it fails with AlreadyWorking whenever any incomplete
\* assignment exists for that owner, still working or already ready; a
\* failed SendToWork creates no assignment.
C19_SendErrorsAmended ==
    [][(ret'.op = "send_prisoners_to_work") =>
          LET o == ret'.who
          IN  /\ Owned(o) = {} => ret'.err = "NoAssets"
              /\ (Owned(o) # {} /\ OpenJobs(o) # {})
                    => ret'.err = "AlreadyWorking"
              /\ (Owned(o) # {} /\ OpenJobs(o) = {}) => ret'.ok
              /\ ~ret'.ok => work_assignments' = work_assignments
      ]_vars

\* an owner whose assignments are ready but not collected was refused
C19_Witness ==
    /\ ret.op = "send_prisoners_to_work" /\ ret.err = "AlreadyWorking"
    /\ OpenJobs(ret.who) # {}
    /\ \A i \in OpenJobs(ret.who) : now >= work_assignments[i].end_time

\* C20: a successful SendToWork(owner) creates exactly one assignment for
\* each asset the owner holds at that moment, all with end time = creation
\* time + 1 hour, and in every reachable state (across any sequence of
\* SendToWork, CollectRewards, Purchase and SelfLiberation) there is at
\* most one incomplete assignment per (owner, asset) pair.
C20_OneAssignmentPerAsset ==
    [][/\ (ret'.op = "send_prisoners_to_work" /\ ret'.ok) =>
             LET o == ret'.who
                 n == Appended(work_assignments, work_assignments')
             IN  /\ Len(n) = Cardinality(Owned(o))
                 /\ {n[i].prisoner_id : i \in DOMAIN n} = Owned(o)
                 /\ \A i \in DOMAIN n :
                       /\ n[i].owner_id = o
                       /\ n[i].end_time = now + 1
                       /\ ~n[i].completed
                 /\ SubSeq(work_assignments', 1, Len(work_assignments))
                       = work_assignments
       /\ \A i, j \in DOMAIN work_assignments' :
             (/\ i # j
              /\ ~work_assignments'[i].completed
              /\ ~work_assignments'[j].completed
              /\ work_assignments'[i].owner_id = work_assignments'[j].owner_id)
             => work_assignments'[i].prisoner_id
                   # work_assignments'[j].prisoner_id
      ]_vars

\* a second work cycle was started after the first was collected
C20_Witness ==
    /\ ret.op = "send_prisoners_to_work" /\ ret.ok
    /\ Len(work_assignments) = 4
    /\ work_assignments[1].completed /\ work_assignments[2].completed
    /\ ~work_assignments[3].completed /\ ~work_assignments[4].completed
    /\ work_assignments[3].end_time = now + 1

\* the UpgradeTrack of an asset, a missing row standing for a fresh track
TrackOf(up, p) ==
    IF p \in DOMAIN up THEN up[p]
    ELSE [level |-> 1, multiplier |-> 100, next_cost |-> 100,
          total_invested |-> 0]

\* C21: Upgrade(owner, asset) fails with NotOwner if asset.owner is not the
\* owner and with InsufficientFunds if owner.balance < the asset's current
\* next-upgrade cost, leaving balances, price and the UpgradeTrack's level,
\* multiplier, cost and invested unchanged; on success it debits the owner
\* by exactly that cost and raises the asset's price by floor(80% of the
\* cost paid).
C21_UpgradeErrors ==
    [][(ret'.op = "upgrade_prisoner" /\ ret'.who \in DOMAIN users
                                    /\ ret'.target \in DOMAIN users) =>
          LET o == ret'.who
              p == ret'.target
              cost == TrackOf(prisoner_upgrades, p).next_cost
          IN  /\ users[p].owner_id # o => ret'.err = "NotOwner"
              /\ (users[p].owner_id = o /\ users[o].balance < cost)
                    => ret'.err = "InsufficientFunds"
              /\ (users[p].owner_id = o /\ users[o].balance >= cost)
                    => ret'.ok
              /\ ~ret'.ok =>
                    /\ users' = users
                    /\ \A x \in DOMAIN users :
                          TrackOf(prisoner_upgrades', x)
                             = TrackOf(prisoner_upgrades, x)
              /\ ret'.ok =>
                    /\ users'[o].balance = users[o].balance - cost
                    /\ \A x \in DOMAIN users \ {o} :
                          users'[x].balance = users[x].balance
                    /\ 10 * (users'[p].price - users[p].price) <= 8 * cost
                    /\ 8 * cost < 10 * (users'[p].price - users[p].price) + 10
      ]_vars

\* an owner left with 50 coins was refused the third upgrade, of cost 225
C21_Witness ==
    /\ ret.op = "upgrade_prisoner" /\ ret.err = "InsufficientFunds"
    /\ ret.target \in DOMAIN prisoner_upgrades
    /\ prisoner_upgrades[ret.target].next_cost = 225
    /\ users[ret.who].balance = 50
    /\ users[ret.target].price = 300

\* C22: for every engine operation and batch job that changes a balance,
\* the balance change and the LedgerEntry that represents it are committed
\* in the same atomic unit: no committed state, including the state left by
\* a crash between two commits of one operation, contains a balance change
\* whose LedgerEntry is missing, or a LedgerEntry whose balance change is
\* missing.
C22_LedgerAtomic ==
    [][LET l == Appended(transactions, transactions')
           moved == {id \in DOMAIN users :
                        users'[id].balance # users[id].balance}
       IN  /\ \A id \in moved :
                 \E i \in DOMAIN l : id \in {l[i].from_user_id,
                                            l[i].to_user_id}
           /\ \A i \in DOMAIN l :
                 (l[i].amount # 0 /\ l[i].from_user_id # l[i].to_user_id)
                    => moved # {}
      ]_vars

\* the sum of the amounts of the ledger rows selected by a condition
LedgerSum(rows) ==
    SumOver(rows, [i \in rows |-> transactions[i].amount])

\* C23: in every committed state each account's balance equals its
\* starting balance plus the amounts of all LedgerEntries naming it as
\* destination minus the amounts of all LedgerEntries naming it as source.
C23_LedgerReplays ==
    \A id \in DOMAIN users :
       users[id].balance =
          300 + LedgerSum({i \in DOMAIN transactions :
                              transactions[i].to_user_id = id})
              - LedgerSum({i \in DOMAIN transactions :
                              transactions[i].from_user_id = id})

\* C24: Transfer(from, to, amount) with amount <= 0 fails with
\* InvalidAmount, changes no balance and appends no LedgerEntry.
C24_InvalidAmount ==
    [][(ret'.op = "transfer_money" /\ ret'.amount <= 0) =>
          /\ ~ret'.ok /\ ret'.err = "InvalidAmount"
          /\ \A id \in DOMAIN users :
                users'[id].balance = users[id].balance
          /\ transactions' = transactions
      ]_vars

\* C25: Purchase with an unknown buyer id or unknown asset id, and Transfer
\* with an unknown source or unknown destination id, each end in a NotFound
\* error reported to the caller (not an unhandled failure and not success),
\* and leave every balance, owner reference and audit table unchanged.
C25_NotFound ==
    [][(/\ ret'.op \in {"buy_prisoner", "transfer_money"}
        /\ (ret'.who \notin DOMAIN users \/ ret'.target \notin DOMAIN users))
       => /\ ~ret'.ok /\ ret'.err = "NotFound"
          /\ users' = users
          /\ ownership_history' = ownership_history
          /\ transactions' = transactions
      ]_vars

\* C26: create-account(id, name, referrer) for a new id creates the
\* account with balance 300, price 100, 0 points, no shield, and owner =
\* none when no referrer is given, or owner = referrer together with one
\* OwnershipRecord (previous owner null, new owner referrer, price 0) in
\* the same atomic step when a referrer is given; for an id that already
\* exists it fails and leaves the existing account and all audit tables
\* unchanged.
C26_CreateAccount ==
    [][(ret'.op = "create_user") =>
          LET id == ret'.who
              r == ret'.target
              h == Appended(ownership_history, ownership_history')
          IN  /\ id \notin DOMAIN users =>
                    /\ ret'.ok
                    /\ DOMAIN users' = DOMAIN users \cup {id}
                    /\ \A x \in DOMAIN users : users'[x] = users[x]
                    /\ users'[id].balance = 300 /\ users'[id].price = 100
                    /\ users'[id].points = 0
                    /\ ~users'[id].shield_active
                    /\ users'[id].shield_until = NULL
                    /\ users'[id].owner_id = r
                    /\ IF r = NULL THEN h = <<>>
                       ELSE /\ Len(h) = 1
                            /\ h[1].prisoner_id = id
                            /\ h[1].old_owner_id = NULL
                            /\ h[1].new_owner_id = r
                            /\ h[1].price = 0
                    /\ transactions' = transactions
              /\ id \in DOMAIN users =>
                    /\ ~ret'.ok
                    /\ users' = users
                    /\ ownership_history' = ownership_history
                    /\ transactions' = transactions
      ]_vars

\* account 3 was created with account 1 as its referrer
C26_Witness ==
    /\ ret = Ret("create_user", TRUE, "OK", 3, 1, 0)
    /\ users[3].owner_id = 1 /\ users[3].balance = 300
    /\ ownership_history[Len(ownership_history)].prisoner_id = 3

\* C27: on a fixed set of accounts the sum of all balances increases only
\* in a generate-hourly-income step or a successful CollectRewards step;
\* no purchase, self-liberation, shield activation, upgrade, transfer,
\* send-to-work or price step ever increases it.
C27_SumIncreasesOnlyByJobs ==
    [][(/\ DOMAIN users' = DOMAIN users
        /\ TotalBalance(users') > TotalBalance(users))
       => \/ ret'.op = "generate_hourly_income"
          \/ ret'.op = "collect_work_rewards" /\ ret'.ok ]_vars

\* C28: in a batch job a failure while processing one account is caught
\* and every other account is still processed: after an hourly-income run
\* every owner other than the one that failed has its income_log row and
\* the balance credit that goes with it.
C28_BatchIsolation ==
    [][(ret'.op = "generate_hourly_income") =>
          \A o \in IncomeOwners(users) \ {ret'.target} :
             \E i \in DOMAIN Appended(income_log, income_log') :
                LET row == Appended(income_log, income_log')[i]
                IN  /\ row.user_id = o
                    /\ row.amount >= 1
                    /\ users'[o].balance = users[o].balance + row.amount
      ]_vars

\* round(n / 100) as Python rounds: to the nearest integer, ties to even
RoundHundredths(n) ==
    LET q == n \div 100
        r == n % 100
    IN  IF r > 50 \/ (r = 50 /\ q % 2 = 1) THEN q + 1 ELSE q

\* the price an account of price p is left with by the price job when the
\* recompute returned new
Repriced(p, new) == IF 20 * Abs(new - p) > p THEN new ELSE p

\* C29 (as stated): the dynamic recompute returns max(floor, round(p * m)),
\* m the product of the four factors clamped to [0.5, 4.0].
C29_DynamicPriceRounded ==
    [][(ret'.op = "update_dynamic_prices") =>
          \A id \in DOMAIN users :
             \E m \in DynProducts :
                LET p == users[id].price
                    mc == IF m < 50 THEN 50 ELSE IF m > 400 THEN 400 ELSE m
                    new == Max(50, RoundHundredths(p * mc))
                IN  users'[id].price = Repriced(p, new)
      ]_vars

\* C29 (amended): the dynamic recompute returns max(floor, p * m rounded
\* toward zero), m the product of the four factors clamped to [0.5, 4.0];
\* the result is never below the floor, never above 4 * p (when 4 * p >=
\* floor) and never below 0.5 * p rounded toward zero.
C29_DynamicPriceTruncated ==
    [][(ret'.op = "update_dynamic_prices") =>
          \A id \in DOMAIN users :
             \E m \in DynProducts :
                LET p == users[id].price
                    mc == IF m < 50 THEN 50 ELSE IF m > 400 THEN 400 ELSE m
                    new == Max(50, (p * mc) \div 100)
                IN  /\ users'[id].price = Repriced(p, new)
                    /\ new >= 50
                    /\ (4 * p >= 50) => new <= 4 * p
                    /\ new >= p \div 2
                    /\ users'[id].price >= 50
                    /\ (4 * p >= 50) => users'[id].price <= 4 * p
      ]_vars

\* the price job has repriced an account from 81 to 65 (81 * 0.81 = 65.61)
C29_Witness ==
    /\ ret.op = "update_dynamic_prices"
    /\ \E id \in DOMAIN users : users[id].price = 65

\* the asset is under a shield that has not run out
Unexpired(a) ==
    /\ users[a].shield_active /\ users[a].shield_until # NULL
    /\ now < users[a].shield_until

\* a failed call left every owner reference and every balance as it was
NothingMoved ==
    \A x \in DOMAIN users :
       /\ users'[x].owner_id = users[x].owner_id
       /\ users'[x].balance = users[x].balance

Expired(a) ==
    /\ users[a].shield_active /\ users[a].shield_until # NULL
    /\ now >= users[a].shield_until

\* the call reached the shield check of buy_prisoner
PurchaseChecksShield ==
    /\ ret'.op = "buy_prisoner"
    /\ ret'.err \notin {"NotFound", "SelfTrade", "AlreadyOwned"}

\* the call reached the shield check of buy_self_freedom
SelfLiberationChecksShield ==
    /\ ret'.op = "buy_self_freedom"
    /\ ret'.err \notin {"NotFound", "NotOwned", "InsufficientFunds"}

\* in the state after the step flag and expiry are set or unset together
ShieldPair ==
    \A x \in DOMAIN users' :
       users'[x].shield_active <=> users'[x].shield_until # NULL

\* C31 (as stated): whenever Purchase or SelfLiberation evaluates the
\* shield check on an asset whose shield expiry has passed, flag and expiry
\* are both unset after the call; in every reachable state the flag and
\* the expiry are both set or both unset.
C31_LazyClear ==
    [][/\ ShieldPair
       /\ (PurchaseChecksShield /\ Expired(ret'.target)) =>
             /\ ~users'[ret'.target].shield_active
             /\ users'[ret'.target].shield_until = NULL
       /\ (SelfLiberationChecksShield /\ Expired(ret'.who)) =>
             /\ ~users'[ret'.who].shield_active
             /\ users'[ret'.who].shield_until = NULL
      ]_vars

\* C31 (amended): whenever Purchase evaluates the shield check on an asset
\* whose shield expiry has passed, flag and expiry are both unset after the
\* call; SelfLiberation compares the expiry with the clock and leaves flag
\* and expiry as they were; in every reachable state the flag and the
\* expiry are both set or both unset.
C31_LazyClearPurchaseOnly ==
    [][/\ ShieldPair
       /\ (PurchaseChecksShield /\ Expired(ret'.target)) =>
             /\ ~users'[ret'.target].shield_active
             /\ users'[ret'.target].shield_until = NULL
       /\ (ret'.op = "buy_self_freedom" /\ ret'.who \in DOMAIN users) =>
             /\ users'[ret'.who].shield_active = users[ret'.who].shield_active
             /\ users'[ret'.who].shield_until = users[ret'.who].shield_until
      ]_vars

\* an asset whose shield had run out was bought and carries no shield
C31_Witness ==
    /\ ret.op = "buy_prisoner" /\ ret.ok
    /\ now >= SHIELD_HOURS
    /\ \E i \in DOMAIN transactions :
          /\ transactions[i].transaction_type = "shield_activation"
          /\ transactions[i].to_user_id = ret.target
    /\ ~users[ret.target].shield_active
    /\ users[ret.target].shield_until = NULL

\* the positions an assignment can take in the work_assignments table
RowIds == 1..(2 * MaxLiveOps)

\* assignment i exists, is not completed and its end time lies ahead
Pending(i) ==
    /\ i \in DOMAIN work_assignments
    /\ ~work_assignments[i].completed
    /\ now < work_assignments[i].end_time

\* assignment i exists and its end time has been reached
EndReached(i) ==
    /\ i \in DOMAIN work_assignments
    /\ now >= work_assignments[i].end_time

\* one step, seen from the assignments that exist before it
ForwardOnly ==
    /\ now' >= now
    /\ \A i \in DOMAIN work_assignments :
          LET row == work_assignments[i]
              collected == /\ ret'.op = "collect_work_rewards"
                           /\ ret'.who = row.owner_id
                           /\ ~row.completed /\ now >= row.end_time
          IN  /\ i \in DOMAIN work_assignments'
              /\ work_assignments'[i] =
                    IF collected THEN [row EXCEPT !.completed = TRUE]
                    ELSE row
              /\ collected => ret'.ok

\* C32: each WorkAssignment moves only forward through pending, ready and
\* completed: as the clock advances every pending assignment becomes ready
\* with no operation writing to it, a ready assignment stays ready until
\* its owner's CollectRewards, only CollectRewards by that owner sets
\* completed, and a completed assignment never becomes incomplete again.
C32_ForwardOnly ==
    /\ [][ForwardOnly]_vars
    /\ \A i \in RowIds : [](Pending(i) => <>EndReached(i))

\* an assignment that was pending has become ready and has been collected
C32_Witness ==
    /\ ret.op = "collect_work_rewards" /\ ret.ok
    /\ \E i \in DOMAIN work_assignments :
          /\ work_assignments[i].completed
          /\ work_assignments[i].owner_id = ret.who
          /\ now >= work_assignments[i].end_time

\* C33: on a successful Purchase at price p the asset's new price is
\* floor(floor(1.3 * p) * s), s = 1.0 plus 0.10 if the asset has at least
\* 3 ownership records in the last 30 days (counted before this purchase's
\* record is appended) plus 0.15 if its empire size is at least 5; with
\* neither condition the new price is exactly floor(1.3 * p).
C33_PurchaseSurcharge ==
    [][(ret'.op = "buy_prisoner" /\ ret'.ok) =>
          LET a == ret'.target
              p == users[a].price
              trades == Cardinality(
                          {i \in DOMAIN ownership_history :
                              /\ ownership_history[i].prisoner_id = a
                              /\ ownership_history[i].timestamp > now - 720})
              empire == Cardinality({x \in DOMAIN users :
                                        users[x].owner_id = a})
              s == 100 + (IF trades >= 3 THEN 10 ELSE 0)
                       + (IF empire >= 5 THEN 15 ELSE 0)
          IN  users'[a].price = (((13 * p) \div 10) * s) \div 100
      ]_vars

\* the multiplier of the UpgradeTrack of asset p, 1.0 for an asset without
\* a row
TrackMultiplier(p) ==
    IF p \in DOMAIN prisoner_upgrades THEN prisoner_upgrades[p].multiplier
    ELSE 100

\* the income ledger entries appended by the step that name owner o
IncomeEntries(o) ==
    LET new == Appended(transactions, transactions')
    IN  {i \in DOMAIN new : /\ new[i].transaction_type = "income"
                            /\ new[i].to_user_id = o}

SalePrices(a) ==
    {ownership_history[i].price :
        i \in {j \in DOMAIN ownership_history :
                 /\ ownership_history[j].prisoner_id = a
                 /\ ownership_history[j].timestamp > now - 720}}

\* C35: in the liquidity factor, when the account's current price exceeds
\* both the 30-day average and the 30-day maximum sale price the trend
\* factor is 1.2; it is 1.1 only when the price exceeds the average but
\* not the maximum, and 1.0 otherwise.
C35_TrendPrecedence ==
    [][(ret'.op = "liquidity_multiplier" /\ ret'.who \in DOMAIN users) =>
          LET a == ret'.who
              w == {j \in DOMAIN ownership_history :
                      /\ ownership_history[j].prisoner_id = a
                      /\ ownership_history[j].timestamp > now - 720}
              n == Cardinality(w)
              total == SumOver(w, [j \in w |-> ownership_history[j].price])
              overAvg == total > 0 /\ users[a].price * n > total
              overMax == /\ \E x \in SalePrices(a) : x > 0
                         /\ \A x \in SalePrices(a) : users[a].price > x
              freq == IF n = 0 THEN 100 ELSE IF n <= 2 THEN 105
                      ELSE IF n <= 5 THEN 115 ELSE 125
              trend == IF overAvg /\ overMax THEN 120
                       ELSE IF overAvg THEN 110 ELSE 100
          IN  ret'.amount = freq * trend
      ]_vars

\* C36: computing an account's dynamic price writes nothing: accounts,
\* ownership records, ledger entries, work assignments, profit snapshots
\* and the set of existing UpgradeTrack rows are identical before and
\* after the computation.
C36_ComputeWritesNothing ==
    [][(ret'.op = "calculate_dynamic_price") =>
          /\ users' = users
          /\ ownership_history' = ownership_history
          /\ transactions' = transactions
          /\ work_assignments' = work_assignments
          /\ profit_log' = profit_log
          /\ DOMAIN prisoner_upgrades' = DOMAIN prisoner_upgrades
      ]_vars

\* profit-generated of the ProfitSnapshot of account x for day d, 0 when
\* there is none
Generated(pl, x, d) ==
    LET rows == {i \in DOMAIN pl : pl[i].user_id = x /\ pl[i].day = d}
    IN  SumOver(rows, [i \in rows |-> pl[i].profit_generated])

\* C37: after a generate-hourly-income step, for every owned asset X the
\* day's ProfitSnapshot of X has its profit-generated increased by exactly
\* the income X produced for its owner in that step, and no account that
\* produced no income for an owner has its profit-generated increased.
C37_ProfitGenerated ==
    [][(ret'.op = "generate_hourly_income" /\ ret'.ok) =>
          LET owned == {x \in DOMAIN users : users[x].owner_id \in DOMAIN users}
              d == now \div 24
              rise == [x \in DOMAIN users |->
                         Generated(profit_log', x, d)
                            - Generated(profit_log, x, d)]
          IN  /\ \A x \in owned :
                    \E b \in {1, 2, 3} :
                       rise[x] = (b * TrackMultiplier(x)) \div 100
              /\ \A x \in DOMAIN users \ owned : rise[x] = 0
      ]_vars

\* C38: in every reachable state an asset with an unexpired shield has an
\* owner, and that owner does not change between a successful
\* ShieldActivate and the shield's expiry, whatever operation is run.
C38_ShieldKeepsOwner ==
    [][/\ \A a \in DOMAIN users :
             (/\ users[a].shield_active /\ users[a].shield_until # NULL
              /\ now < users[a].shield_until)
             => /\ users[a].owner_id # NULL
                /\ users'[a].owner_id = users[a].owner_id
       /\ \A a \in DOMAIN users' :
             (/\ users'[a].shield_active /\ users'[a].shield_until # NULL
              /\ now' < users'[a].shield_until)
             => users'[a].owner_id # NULL
      ]_vars

\* a self-liberation was refused to an asset under an unexpired shield
C38_Witness ==
    /\ ret.op = "buy_self_freedom" /\ ret.err = "Shielded"
    /\ users[ret.who].shield_active
    /\ now < users[ret.who].shield_until
    /\ users[ret.who].owner_id # NULL

\* the positions of the OwnershipRecords of asset a, in insertion order
RecordsOf(a) == {i \in DOMAIN ownership_history :
                    ownership_history[i].prisoner_id = a}

\* C39: after any sequence of create-account, Purchase and SelfLiberation
\* calls the OwnershipRecords of each asset form a provenance chain: each
\* record's previous owner equals the new owner of the asset's preceding
\* record (null for the first), and the new owner of the asset's latest
\* record equals the asset's current owner reference (an asset with no
\* record is unowned).
C39_ProvenanceChain ==
    \A a \in DOMAIN users :
       /\ \A i \in RecordsOf(a) :
             LET before == {j \in RecordsOf(a) : j < i}
             IN  ownership_history[i].old_owner_id =
                    IF before = {} THEN NULL
                    ELSE ownership_history[
                            CHOOSE j \in before : \A k \in before : k <= j
                         ].new_owner_id
       /\ users[a].owner_id =
             IF RecordsOf(a) = {} THEN NULL
             ELSE ownership_history[
                     CHOOSE j \in RecordsOf(a) : \A k \in RecordsOf(a) : k <= j
                  ].new_owner_id

\* an account created under a referrer has been bought and has then
\* liberated itself: three records, no owner
C39_Witness ==
    /\ ret.op = "buy_self_freedom" /\ ret.ok
    /\ Cardinality(RecordsOf(ret.who)) = 3
    /\ users[ret.who].owner_id = NULL

\* the assignments the step has set completed
PaidJobs ==
    {i \in DOMAIN work_assignments :
        /\ ~work_assignments[i].completed
        /\ work_assignments'[i].completed}

\* C40: the amount paid by CollectRewards for an assignment is exactly the
\* expected reward stored when SendToWork created it and is paid to the
\* owner recorded on the assignment; a later price change of the asset, or
\* the asset being sold or liberating itself before collection, changes
\* neither the amount nor the recipient.
C40_StoredRewardPaid ==
    [][/\ \A i \in DOMAIN work_assignments :
             /\ work_assignments'[i].expected_reward =
                   work_assignments[i].expected_reward
             /\ work_assignments'[i].owner_id = work_assignments[i].owner_id
             /\ work_assignments'[i].prisoner_id =
                   work_assignments[i].prisoner_id
       /\ (ret'.op = "collect_work_rewards" /\ ret'.ok) =>
             /\ PaidJobs # {}
             /\ \A x \in DOMAIN users :
                   LET mine == {i \in PaidJobs :
                                   work_assignments[i].owner_id = x}
                   IN  users'[x].balance = users[x].balance +
                          SumOver(mine, [i \in mine |->
                                     work_assignments[i].expected_reward])
             /\ ret'.amount =
                   SumOver(PaidJobs, [i \in PaidJobs |->
                              work_assignments[i].expected_reward])
      ]_vars

\* rewards were collected by the recorded owner for an asset that has left
\* it, at a price other than the one it was sent to work at
C40_Witness ==
    /\ ret.op = "collect_work_rewards" /\ ret.ok
    /\ \E i \in DOMAIN work_assignments :
          /\ work_assignments[i].completed
          /\ work_assignments[i].owner_id = ret.who
          /\ users[work_assignments[i].prisoner_id].owner_id # ret.who
          /\ users[work_assignments[i].prisoner_id].price # STARTING_PRICE

====
